---- MODULE Spec2Model ----
(***************************************************************************)
(* Model of the quantized attention-tensor decoder and variant resolver    *)
(* (shared/attentionDecode.js, kept here as src/unnamed/part_004).         *)
(*                                                                         *)
(* JavaScript values are represented as follows.                           *)
(*  - A typed array of n elements is a function with domain 0..n-1.        *)
(*  - A string that is absent (undefined, null or '') is the string "".    *)
(*  - A variant descriptor is a record; an absent (or null) entry of       *)
(*    attn_variants is the record NoVariant, whose truthy field is FALSE.  *)
(*  - float32 values are the integers (every product of a 4- or 8-bit      *)
(*    integer and a small integer scale is exactly representable, so the   *)
(*    rounding of the Float32Array store is the identity on them).         *)
(***************************************************************************)
EXTENDS Integers, Sequences, FiniteSets, TLC

\* ------------------------------------------------------------------ bounds

\* Largest number of heads H, of queries Q and of keys K in the shapes drawn.
MaxH == 2
MaxQ == 2
MaxK == 3
\* Largest batch dimension in the manifests that are drawn.
MaxBatch == 2
\* How far a delivered buffer's length may be from a length the shape implies.
MaxSlack == 1

\* --------------------------------------------------------------- utilities

\* An array literal <<a, b, ...>> as a 0-based typed array.
ArrayOf(s) == [i \in 0..(Len(s) - 1) |-> s[i + 1]]

ArrayLen(a) == Cardinality(DOMAIN a)

EmptyArray == [i \in {} |-> 0]

\* String.prototype.trim().toLowerCase() on the strings the model draws.
TrimLower(s) ==
  CASE s = "FP32" -> "fp32"
    [] s = " INT8 " -> "int8"
    [] s = "Int4" -> "int4"
    [] s = "SYMMETRIC_PER_HEAD" -> "symmetric_per_head"
    [] OTHER -> s

\* ------------------------------------------------------- variant resolution

normalizePrecision(value) ==
  LET raw == TrimLower(IF value = "" THEN "auto" ELSE value)
  IN  CASE raw = "auto" -> "auto"
        [] raw = "fp32" \/ raw = "float32" -> "fp32"
        [] raw = "int8" \/ raw = "int8_phs_v1" -> "int8"
        [] raw = "int4" \/ raw = "int4_phq_v1" -> "int4"
        [] OTHER -> "auto"

\* The keys an attn_variants object of the model may hold.
VariantKeys == {"fp32", "int8_phs_v1", "int4_phq_v1", "custom_v1"}

NoVariant ==
  [truthy |-> FALSE, file |-> "", scale_file |-> "", dtype |-> "", encoding |-> ""]

\* variants[key] of a JavaScript object: undefined for a key it does not hold.
Lookup(variants, key) ==
  IF key \in DOMAIN variants THEN variants[key] ELSE NoVariant

\* sceneJson?.attn_variants || {} : the object's entries, none for a non-object.
VariantsOrEmpty(sceneJson) ==
  IF sceneJson.attn_variants.kind = "object"
    THEN sceneJson.attn_variants.map
    ELSE [k \in {} |-> NoVariant]

\* The mutant of toVariantKey: int8 is preferred to int4.
toVariantKey_Int8First(requested, sceneJson) ==
  LET variants == VariantsOrEmpty(sceneJson)
      preferred == IF sceneJson.metadata.isString
                     THEN sceneJson.metadata.attn_precision_default
                     ELSE ""
  IN  CASE requested = "fp32" -> "fp32"
        [] requested = "int8" -> "int8_phs_v1"
        [] requested = "int4" -> "int4_phq_v1"
        [] OTHER ->
             IF preferred # "" /\ Lookup(variants, preferred).truthy THEN preferred
             ELSE IF Lookup(variants, "int8_phs_v1").truthy THEN "int8_phs_v1"
             ELSE IF Lookup(variants, "int4_phq_v1").truthy THEN "int4_phq_v1"
             ELSE IF Lookup(variants, "fp32").truthy THEN "fp32"
             ELSE ""

toVariantKey(requested, sceneJson) ==
  LET variants == VariantsOrEmpty(sceneJson)
      preferred == IF sceneJson.metadata.isString
                     THEN sceneJson.metadata.attn_precision_default
                     ELSE ""
  IN  CASE requested = "fp32" -> "fp32"
        [] requested = "int8" -> "int8_phs_v1"
        [] requested = "int4" -> "int4_phq_v1"
        [] OTHER ->
             IF preferred # "" /\ Lookup(variants, preferred).truthy THEN preferred
             ELSE IF Lookup(variants, "int4_phq_v1").truthy THEN "int4_phq_v1"
             ELSE IF Lookup(variants, "int8_phs_v1").truthy THEN "int8_phs_v1"
             ELSE IF Lookup(variants, "fp32").truthy THEN "fp32"
             ELSE ""

\* The mutant of buildLegacyFp32Variant: no null for an absent attn_weights_file.
buildLegacyFp32Variant_NoNull(sceneJson) ==
  [truthy |-> TRUE, file |-> sceneJson.attn_weights_file, scale_file |-> "",
   dtype |-> "float32", encoding |-> "raw"]

\* null is NoVariant.
buildLegacyFp32Variant(sceneJson) ==
  IF sceneJson.attn_weights_file = "" THEN NoVariant
  ELSE [truthy |-> TRUE, file |-> sceneJson.attn_weights_file, scale_file |-> "",
        dtype |-> "float32", encoding |-> "raw"]

Thrown(msg, requested) ==
  [threw |-> TRUE, error |-> msg, key |-> "", variant |-> NoVariant,
   fallbackUsed |-> FALSE, requested |-> requested]

Returned(key, variant, fallbackUsed, requested) ==
  [threw |-> FALSE, error |-> "", key |-> key, variant |-> variant,
   fallbackUsed |-> fallbackUsed, requested |-> requested]

\* The mutant of ExplicitRequest: only int8 counts as an explicit request.
ExplicitRequest_Int8Only(requested) == requested = "int8"

\* requested === "int8" || requested === "int4" (lines 62 and 93).
ExplicitRequest(requested) == requested = "int8" \/ requested = "int4"

resolveAttentionVariant(sceneJson, urlPrecision) ==
  LET requested == normalizePrecision(urlPrecision)
      hasMap == sceneJson.attn_variants.kind = "object"
      variants == VariantsOrEmpty(sceneJson)
      legacy == buildLegacyFp32Variant(sceneJson)
      key == toVariantKey(requested, sceneJson)
      variant == Lookup(variants, key)
      fallback == IF Lookup(variants, "fp32").truthy
                    THEN Lookup(variants, "fp32") ELSE legacy
  IN  IF ~hasMap THEN
        IF ExplicitRequest(requested)
          THEN Thrown("no_variants_for_precision", requested)
        ELSE IF ~legacy.truthy THEN Thrown("no_binary_reference", requested)
        ELSE Returned("fp32", legacy, requested # "auto", requested)
      ELSE IF key = "" THEN
        IF ~legacy.truthy THEN Thrown("no_usable_variants", requested)
        ELSE Returned("fp32", legacy, requested # "auto", requested)
      ELSE IF ~variant.truthy THEN
        IF ExplicitRequest(requested)
          THEN Thrown("requested_variant_missing", requested)
        ELSE IF ~fallback.truthy THEN Thrown("variant_unavailable", requested)
        ELSE Returned("fp32", fallback, TRUE, requested)
      ELSE Returned(key, variant,
                    (requested = "int8" /\ key # "int8_phs_v1")
                      \/ (requested = "int4" /\ key # "int4_phq_v1"),
                    requested)

\* ------------------------------------------------------------------ buffers

\* An ArrayBuffer as the decoder views it: its elements (bytes when width is 1,
\* float32 words when width is 4) and the bytes left over after the last whole
\* element, so that byteLength = width * length + tail.
Buffer(elems, width, tail) == [elems |-> elems, width |-> width, tail |-> tail]

NoBuffer == Buffer(EmptyArray, 1, 0)

\* new Uint8Array(buffer)
Uint8View(buffer) == buffer.elems

\* new Int8Array(buffer): each byte read as a two's-complement 8-bit integer.
Int8View(buffer) ==
  [i \in DOMAIN buffer.elems |->
     IF buffer.elems[i] >= 128 THEN buffer.elems[i] - 256 ELSE buffer.elems[i]]

\* new Float32Array(buffer) throws a RangeError unless byteLength is a multiple of 4.
Float32ViewThrows(buffer) == buffer.tail # 0

Float32View(buffer) == buffer.elems

\* ---------------------------------------------------------------- decoding

prod(nums) == nums[1] * nums[2] * nums[3] * nums[4]

\* x & 0x0f, x >> 4 and x & 0x08 on a byte.
LowNibble(byte) == byte % 16

HighNibble(byte) == (byte \div 16) % 16

\* The mutant of nibbleToSigned: no sign extension.
nibbleToSigned_Unsigned(value) == value

nibbleToSigned(value) == IF (value \div 8) % 2 = 1 THEN value - 16 ELSE value

\* The mutant of int4At: the high nibble holds the even element.
int4At_HighFirst(packed, index) ==
  LET byte == packed[index \div 2]
  IN  IF index % 2 = 0 THEN nibbleToSigned(HighNibble(byte))
      ELSE nibbleToSigned(LowNibble(byte))

int4At(packed, index) ==
  LET byte == packed[index \div 2]
  IN  IF index % 2 = 0 THEN nibbleToSigned(LowNibble(byte))
      ELSE nibbleToSigned(HighNibble(byte))

\* Math.ceil(n / 2) for n >= 0.
CeilHalf(n) == (n + 1) \div 2

\* new Float32Array(n): n zeros.
ZeroArray(n) == [i \in 0..(n - 1) |-> 0]

DecodeThrown(msg) == [threw |-> TRUE, error |-> msg, out |-> EmptyArray]

DecodeReturned(out) == [threw |-> FALSE, error |-> "", out |-> out]

\* loadRawFp32 after its fetch.
DecodeRawFp32(buffer, shape) ==
  IF Float32ViewThrows(buffer) THEN DecodeThrown("range_error")
  ELSE LET out == Float32View(buffer)
       IN  IF ArrayLen(out) # prod(shape) THEN DecodeThrown("fp32_size_mismatch")
           ELSE DecodeReturned(out)

\* The inner loop of loadInt8PerHead: elements i..headStride-1 of one head.
RECURSIVE Int8Slice(_, _, _, _, _, _)
Int8Slice(out, q, scale, base, i, headStride) ==
  IF i >= headStride THEN out
  ELSE Int8Slice([out EXCEPT ![base + i] = q[base + i] * scale],
                 q, scale, base, i + 1, headStride)

\* The mutant of Int8Heads: every head is scaled by the first head's scale.
RECURSIVE Int8Heads_FirstScale(_, _, _, _, _, _)
Int8Heads_FirstScale(out, q, scales, head, h, headStride) ==
  IF head >= h THEN out
  ELSE Int8Heads_FirstScale(
         Int8Slice(out, q, scales[0], head * headStride, 0, headStride),
         q, scales, head + 1, h, headStride)

\* The outer loop of loadInt8PerHead: heads head..h-1.
RECURSIVE Int8Heads(_, _, _, _, _, _)
Int8Heads(out, q, scales, head, h, headStride) ==
  IF head >= h THEN out
  ELSE Int8Heads(Int8Slice(out, q, scales[head], head * headStride, 0, headStride),
                 q, scales, head + 1, h, headStride)

\* loadInt8PerHead after its two fetches.
DecodeInt8PerHead(qBuffer, sBuffer, shape) ==
  IF Float32ViewThrows(sBuffer) THEN DecodeThrown("range_error")
  ELSE
    LET q == Int8View(qBuffer)
        scales == Float32View(sBuffer)
        b == shape[1]
        h == shape[2]
        qDim == shape[3]
        kDim == shape[4]
        expectedValues == b * h * qDim * kDim
    IN  IF b # 1 THEN DecodeThrown("batch_size")
        ELSE IF ArrayLen(q) # expectedValues THEN DecodeThrown("int8_size_mismatch")
        ELSE IF ArrayLen(scales) # h THEN DecodeThrown("int8_scales_mismatch")
        ELSE DecodeReturned(
               Int8Heads(ZeroArray(expectedValues), q, scales, 0, h, qDim * kDim))

\* The innermost loop of loadInt4Packed: keys k..kDim-1 of one (head, query).
RECURSIVE Int4Keys(_, _, _, _, _, _)
Int4Keys(out, packed, scale, base, k, kDim) ==
  IF k >= kDim THEN out
  ELSE Int4Keys([out EXCEPT ![base + k] = int4At(packed, base + k) * scale],
                packed, scale, base, k + 1, kDim)

\* The two outer loops of loadInt4Packed, as one walk over the rows
\* row = head * qDim + q, in the order the nested loops visit them.
RECURSIVE Int4Rows(_, _, _, _, _, _)
Int4Rows(out, packed, scales, row, rows, kDim) ==
  IF row >= rows THEN out
  ELSE Int4Rows(Int4Keys(out, packed, scales[row], row * kDim, 0, kDim),
                packed, scales, row + 1, rows, kDim)

\* loadInt4Packed after its two fetches.
DecodeInt4Packed(qBuffer, sBuffer, shape) ==
  IF Float32ViewThrows(sBuffer) THEN DecodeThrown("range_error")
  ELSE
    LET packed == Uint8View(qBuffer)
        scales == Float32View(sBuffer)
        b == shape[1]
        h == shape[2]
        qDim == shape[3]
        kDim == shape[4]
        expectedValues == b * h * qDim * kDim
    IN  IF b # 1 THEN DecodeThrown("batch_size")
        ELSE IF ArrayLen(packed) # CeilHalf(expectedValues)
          THEN DecodeThrown("int4_size_mismatch")
        ELSE IF ArrayLen(scales) # h * qDim THEN DecodeThrown("int4_scales_mismatch")
        ELSE DecodeReturned(
               Int4Rows(ZeroArray(expectedValues), packed, scales, 0, h * qDim, kDim))

\* The branch loadAttentionAsFloat32 takes on the resolved variant.
Dispatch(variant) ==
  LET dtype == TrimLower(variant.dtype)
      encoding == TrimLower(variant.encoding)
  IN  IF dtype = "int4" \/ encoding = "symmetric_per_head_query_packed_int4" THEN "int4"
      ELSE IF dtype = "int8" \/ encoding = "symmetric_per_head" THEN "int8"
      ELSE "fp32"

\* What the chosen decoder throws before it fetches anything ("" when nothing).
PreFetchError(decoder, variant) ==
  CASE decoder = "fp32" ->
         IF variant.file = "" THEN "fp32_missing_file" ELSE ""
    [] decoder = "int8" ->
         IF variant.file = "" \/ variant.scale_file = "" THEN "int8_requires_files"
         ELSE IF variant.encoding # "symmetric_per_head" THEN "int8_unsupported_encoding"
         ELSE ""
    [] OTHER ->
         IF variant.file = "" \/ variant.scale_file = "" THEN "int4_requires_files"
         ELSE ""

\* ------------------------------------------------------------------- state

VARIABLES
  sceneJson,     \* the scene manifest of the call in progress
  urlPrecision,  \* the precision string the caller passed
  rs_pc,         \* resolveAttentionVariant call: "idle", "call", "returned", "threw"
  rs_result,     \* what that call returned or threw
  nb_packed,     \* int4At call: the packed bytes
  nb_index,      \* int4At call: the element index
  nb_pc,         \* int4At call: "idle", "call", "returned"
  nb_value,      \* int4At call: the value returned
  ld_pc,         \* loadAttentionAsFloat32: "idle", "start", "awaiting", "done", "error"
  ld_shape,      \* the shape ensureShape returned
  ld_resolved,   \* the result of resolveAttentionVariant inside the load
  ld_decoder,    \* the decoder the load dispatched to: "none", "fp32", "int8", "int4"
  fetches,       \* per fetch slot ("q" payload, "s" scales): its state and buffer
  requests,      \* per fetch slot: how many requests were issued
  ld_result,     \* the object the load returned
  ld_error,      \* the error the load rejected with ("" while none)
  scene,         \* loadSceneData: the scene data, its images and its tensor
  en_pc,         \* loadSceneData: "idle", "loading", "loaded", "threw"
  engine,        \* the visualizer loadSceneData constructed
  imageDisplayOrder,  \* the display order loadSceneData returned
  call,          \* the last query made of the visualizer
  outcome,       \* what that query returned or threw
  app,           \* App: sceneData, visualizer, the loading and error panels
  loads,         \* App.loadScene calls in start order: path and position
  bev,           \* BEVView: baseImageUrl, baseImage, baseImageLoadToken
  bev_images     \* the Image objects setBaseImageUrl created, in creation order

vars ==
  <<sceneJson, urlPrecision, rs_pc, rs_result, nb_packed, nb_index, nb_pc, nb_value,
    ld_pc, ld_shape, ld_resolved, ld_decoder, fetches, requests, ld_result, ld_error,
    scene, en_pc, engine, imageDisplayOrder, call, outcome,
    app, loads, bev, bev_images>>

rsVars == <<rs_pc, rs_result>>

nbVars == <<nb_packed, nb_index, nb_pc, nb_value>>

ldVars == <<ld_pc, ld_shape, ld_resolved, ld_decoder, fetches, requests, ld_result, ld_error>>

enVars == <<scene, en_pc, engine, imageDisplayOrder, call, outcome>>

uiVars == <<app, loads, bev, bev_images>>

\* ------------------------------------------------------------------ inputs

Manifest(shape, kind, map, legacyFile, metadata) ==
  [attn_weights_shape |-> shape,
   attn_variants |-> [kind |-> kind, map |-> map],
   attn_weights_file |-> legacyFile,
   metadata |-> metadata]

\* metadata without a string attn_precision_default.
NoDefault == [isString |-> FALSE, attn_precision_default |-> ""]

Default(name) == [isString |-> TRUE, attn_precision_default |-> name]

Variant(file, scaleFile, dtype, encoding) ==
  [truthy |-> TRUE, file |-> file, scale_file |-> scaleFile, dtype |-> dtype,
   encoding |-> encoding]

\* The entry a well-formed manifest holds under each key (section 6 of the spec).
CanonicalVariant(key) ==
  CASE key = "fp32" -> Variant("attn_fp32.bin", "", "float32", "raw")
    [] key = "int8_phs_v1" ->
         Variant("attn_int8.bin", "attn_int8_scales.bin", "int8", "symmetric_per_head")
    [] key = "int4_phq_v1" ->
         Variant("attn_int4.bin", "attn_int4_scales.bin", "int4",
                 "symmetric_per_head_query_packed_int4")
    [] OTHER -> Variant("attn_custom.bin", "", "float32", "raw")

\* The precision strings callers pass ("" stands for null, undefined and '').
Precisions ==
  {"", "auto", "fp32", "float32", "FP32", "int8", "int8_phs_v1", " INT8 ", "int4",
   "int4_phq_v1", "Int4", "int16"}

\* attn_variants objects: every subset of VariantKeys present, the rest absent.
VariantMaps ==
  {[k \in VariantKeys |-> IF k \in present THEN CanonicalVariant(k) ELSE NoVariant] :
     present \in SUBSET VariantKeys}

NoMap == [k \in VariantKeys |-> NoVariant]

\* metadata.attn_precision_default: absent (or not a string), or one of these.
DefaultNames == {"", "fp32", "int8_phs_v1", "int4_phq_v1", "custom_v1", "int2_v9"}

ValidShape == <<1, 1, 1, 1>>

\* The manifests the resolver is called with.
ResolveManifests ==
  {Manifest(ValidShape, "object", m, f, md) :
     m \in VariantMaps, f \in {"", "attn_weights.bin"},
     md \in {NoDefault} \cup {Default(d) : d \in DefaultNames}}
  \cup
  {Manifest(ValidShape, kind, NoMap, f, md) :
     kind \in {"undefined", "string"}, f \in {"", "attn_weights.bin"},
     md \in {NoDefault, Default("int8_phs_v1")}}

\* --------------------------------------------------- resolveAttentionVariant

NoFetch == [state |-> "none", buffer |-> NoBuffer]

NoResult ==
  [float32 |-> EmptyArray, shape |-> <<>>, selectedPrecision |-> "",
   fallbackUsed |-> FALSE, requestedPrecision |-> ""]

InitIdleResolve ==
  /\ rs_pc = "idle"
  /\ rs_result = Thrown("", "")

InitIdleNibble ==
  /\ nb_packed = EmptyArray
  /\ nb_index = 0
  /\ nb_pc = "idle"
  /\ nb_value = 0

InitIdleLoad ==
  /\ ld_pc = "idle"
  /\ ld_shape = <<>>
  /\ ld_resolved = Thrown("", "")
  /\ ld_decoder = "none"
  /\ fetches = [slot \in {"q", "s"} |-> NoFetch]
  /\ requests = [slot \in {"q", "s"} |-> 0]
  /\ ld_result = NoResult
  /\ ld_error = ""

\* No scene is being loaded and no visualizer exists.
NoScene == [kind |-> "none"]

NoEngine == [kind |-> "none"]

NoCall == [method |-> "none"]

NoOutcome == [threw |-> FALSE, error |-> "", value |-> <<>>]

InitIdleEngine ==
  /\ scene = NoScene
  /\ en_pc = "idle"
  /\ engine = NoEngine
  /\ imageDisplayOrder = <<>>
  /\ call = NoCall
  /\ outcome = NoOutcome

\* No scene data is held and no loadScene call was made.
NoSceneData == [jsonPath |-> "", load |-> 0]

NewApp == [sceneData |-> NoSceneData, visualizer |-> NoSceneData, loading |-> FALSE, error |-> ""]

\* baseImage 0 is null; otherwise it is the position in bev_images of the Image held.
NewBEVView == [baseImageUrl |-> "", baseImage |-> 0, baseImageLoadToken |-> 0]

InitIdleUi ==
  /\ app = NewApp
  /\ loads = <<>>
  /\ bev = NewBEVView
  /\ bev_images = <<>>

InitResolve ==
  /\ sceneJson \in ResolveManifests
  /\ urlPrecision \in Precisions
  /\ rs_pc = "call"
  /\ rs_result = Thrown("", "")
  /\ InitIdleNibble
  /\ InitIdleLoad
  /\ InitIdleEngine
  /\ InitIdleUi

\* One call of resolveAttentionVariant(sceneJson, urlPrecision).
Resolve ==
  /\ rs_pc = "call"
  /\ rs_result' = resolveAttentionVariant(sceneJson, urlPrecision)
  /\ rs_pc' = IF rs_result'.threw THEN "threw" ELSE "returned"
  /\ UNCHANGED <<enVars, uiVars, sceneJson, urlPrecision, nbVars, ldVars>>

NextResolve == Resolve

SpecResolve == InitResolve /\ [][NextResolve]_vars

\* The resolver call has ended, by returning or by throwing.
ResolveEnded == rs_pc \in {"returned", "threw"}

\* The manifest holds a usable entry under key in an attn_variants object.
HasVariant(key) ==
  /\ sceneJson.attn_variants.kind = "object"
  /\ key \in DOMAIN sceneJson.attn_variants.map
  /\ sceneJson.attn_variants.map[key].truthy

\* The key a literal reading of an explicit precision demands.
LiteralKey(requested) ==
  CASE requested = "int8" -> "int8_phs_v1"
    [] requested = "int4" -> "int4_phq_v1"
    [] OTHER -> "fp32"

\* C8: a request that normalizes to int8 (int4) on a manifest without an
\* int8_phs_v1 (int4_phq_v1) variant, with or without an attn_variants map,
\* makes resolveAttentionVariant throw; a result it returns for such a request
\* has exactly the requested variant's key.
C8_ExplicitHonoredOrRejected ==
  ResolveEnded =>
    \A p \in {"int8", "int4"} :
      normalizePrecision(urlPrecision) = p =>
        /\ ~HasVariant(LiteralKey(p)) => rs_pc = "threw"
        /\ rs_pc = "returned" => rs_result.key = LiteralKey(p)

\* C8 witness: int8 was requested of a manifest whose map holds fp32 but not
\* int8_phs_v1, and the call threw.
C8_Witness ==
  /\ rs_pc = "threw"
  /\ normalizePrecision(urlPrecision) = "int8"
  /\ HasVariant("fp32")
  /\ ~HasVariant("int8_phs_v1")

\* The manifest's declared default, "" when it declares none.
DeclaredDefault ==
  IF sceneJson.metadata.isString THEN sceneJson.metadata.attn_precision_default ELSE ""

\* The first of int4, int8, fp32 the manifest has, "" when it has none.
FirstByPriority ==
  IF HasVariant("int4_phq_v1") THEN "int4_phq_v1"
  ELSE IF HasVariant("int8_phs_v1") THEN "int8_phs_v1"
  ELSE IF HasVariant("fp32") THEN "fp32"
  ELSE ""

\* C9: for an auto request on a manifest with an attn_variants map, the resolved
\* key is the declared default when the manifest has that variant, else the
\* first of int4, int8, fp32 it has, and fallbackUsed is false.
C9_AutoPolicy ==
  (/\ ResolveEnded
   /\ normalizePrecision(urlPrecision) = "auto"
   /\ sceneJson.attn_variants.kind = "object") =>
    LET expected == IF DeclaredDefault # "" /\ HasVariant(DeclaredDefault)
                      THEN DeclaredDefault
                      ELSE FirstByPriority
    IN  expected # "" =>
          /\ rs_pc = "returned"
          /\ rs_result.key = expected
          /\ rs_result.variant = sceneJson.attn_variants.map[expected]
          /\ ~rs_result.fallbackUsed

\* C9 witness: auto on a map holding int4 and int8, with a declared default the
\* map does not hold, resolved to int4.
C9_Witness ==
  /\ rs_pc = "returned"
  /\ normalizePrecision(urlPrecision) = "auto"
  /\ HasVariant("int4_phq_v1")
  /\ HasVariant("int8_phs_v1")
  /\ DeclaredDefault = "int2_v9"
  /\ rs_result.key = "int4_phq_v1"

\* C10: without an attn_variants map and for a request that is not int8 or
\* int4, the resolver returns key fp32 with the variant built from
\* attn_weights_file (dtype float32, encoding raw), and throws when
\* attn_weights_file is absent too.
C10_LegacyFallback ==
  (/\ ResolveEnded
   /\ sceneJson.attn_variants.kind # "object"
   /\ normalizePrecision(urlPrecision) \notin {"int8", "int4"}) =>
    IF sceneJson.attn_weights_file # ""
      THEN /\ rs_pc = "returned"
           /\ rs_result.key = "fp32"
           /\ rs_result.variant.file = sceneJson.attn_weights_file
           /\ rs_result.variant.dtype = "float32"
           /\ rs_result.variant.encoding = "raw"
      ELSE rs_pc = "threw"

\* C10 witness: a manifest with only attn_weights_file resolved to the legacy
\* reference.
C10_Witness ==
  /\ rs_pc = "returned"
  /\ sceneJson.attn_variants.kind = "undefined"
  /\ sceneJson.attn_weights_file = "attn_weights.bin"
  /\ rs_result.key = "fp32"
  /\ rs_result.variant.file = "attn_weights.bin"

\* The request is one of the explicit precisions fp32, int8, int4.
ExplicitPrecision == normalizePrecision(urlPrecision) \in {"fp32", "int8", "int4"}

\* C11: in every result the resolver returns, a resolved key that differs from
\* the key a literal reading of the requested precision demands comes with
\* fallbackUsed = true.
C11_SubstitutionMarked ==
  (rs_pc = "returned" /\ ExplicitPrecision) =>
    (rs_result.key # LiteralKey(normalizePrecision(urlPrecision))
       => rs_result.fallbackUsed)

\* C11, its case: no result returned for an explicit request has a key other
\* than the literal one, so C11_SubstitutionMarked has no state to speak of.
C11_NeverSubstituted ==
  (rs_pc = "returned" /\ ExplicitPrecision) =>
    rs_result.key = LiteralKey(normalizePrecision(urlPrecision))

\* C12: for every manifest and every explicit request (fp32, int8, int4) the
\* resolver raises or returns fallbackUsed = false; fallbackUsed = true is
\* reached only by an auto request.
C12_FallbackOnlyAuto ==
  (rs_pc = "returned" /\ ExplicitPrecision) => ~rs_result.fallbackUsed

\* C30: every result the resolver returns has one of the keys fp32,
\* int8_phs_v1, int4_phq_v1, and its variant is the manifest's entry under
\* that key or, for fp32 only, the variant built from attn_weights_file.
C30_CanonicalKey ==
  rs_pc = "returned" =>
    /\ rs_result.key \in {"fp32", "int8_phs_v1", "int4_phq_v1"}
    /\ \/ HasVariant(rs_result.key)
            /\ rs_result.variant = sceneJson.attn_variants.map[rs_result.key]
       \/ rs_result.key = "fp32"
            /\ rs_result.variant = buildLegacyFp32Variant(sceneJson)

\* -------------------------------------------------------------------- int4At

\* Largest number of bytes in the packed array int4At is called on.
MaxPacked == 2

\* A packed array of n bytes holding byte at position p.
PackedWith(n, p, byte) == [j \in 0..(n - 1) |-> IF j = p THEN byte ELSE 255 - byte]

InitNibble ==
  /\ \E n \in 1..MaxPacked, p \in 0..(MaxPacked - 1), byte \in 0..255, odd \in 0..1 :
       /\ p < n
       /\ nb_packed = PackedWith(n, p, byte)
       /\ nb_index = 2 * p + odd
  /\ nb_pc = "call"
  /\ nb_value = 0
  /\ sceneJson = Manifest(ValidShape, "undefined", NoMap, "", NoDefault)
  /\ urlPrecision = ""
  /\ InitIdleResolve
  /\ InitIdleLoad
  /\ InitIdleEngine
  /\ InitIdleUi

\* One call of int4At(nb_packed, nb_index).
CallInt4At ==
  /\ nb_pc = "call"
  /\ nb_value' = int4At(nb_packed, nb_index)
  /\ nb_pc' = "returned"
  /\ UNCHANGED <<enVars, uiVars, sceneJson, urlPrecision, nb_packed, nb_index, rsVars, ldVars>>

NextNibble == CallInt4At

SpecNibble == InitNibble /\ [][NextNibble]_vars

\* The byte int4At's index falls in.
NibbleByte == nb_packed[nb_index \div 2]

\* C2: for every byte, int4At yields the low 4 bits for an even index and the
\* high 4 bits for an odd one, sign-extended (a nibble of 8 or more is the
\* nibble minus 16), so the value lies in -8..7; byte 0x1F gives -1 and 1.
C2_NibbleLaw ==
  nb_pc = "returned" =>
    LET bits == {i \in 0..7 : (NibbleByte \div (2 ^ i)) % 2 = 1}
        picked == IF nb_index % 2 = 0 THEN bits \cap (0..3)
                  ELSE {i - 4 : i \in bits \cap (4..7)}
        magnitude == (IF 0 \in picked THEN 1 ELSE 0) + (IF 1 \in picked THEN 2 ELSE 0)
                       + (IF 2 \in picked THEN 4 ELSE 0)
    IN  /\ nb_value = magnitude - (IF 3 \in picked THEN 8 ELSE 0)
        /\ nb_value \in (-8)..7
        /\ NibbleByte = 31 => nb_value = (IF nb_index % 2 = 0 THEN -1 ELSE 1)

\* C2 witness: the high nibble of byte 0xF8 was decoded to -1.
C2_Witness ==
  /\ nb_pc = "returned"
  /\ NibbleByte = 248
  /\ nb_index % 2 = 1
  /\ nb_value = -1

\* ---------------------------------------------------- loadAttentionAsFloat32

Dtypes == {"", "float32", "int8", "int4", "float16"}

Encodings ==
  {"", "raw", "symmetric_per_head", "symmetric_per_head_query_packed_int4",
   "blockwise", "SYMMETRIC_PER_HEAD"}

\* The variant descriptors the load is given: every dtype/encoding pair with
\* both files named, and the recognized pairs with a file name missing.
LoadVariants ==
  {Variant("attn.bin", "scales.bin", d, e) : d \in Dtypes, e \in Encodings}
  \cup {Variant("", "", "float32", "raw"),
        Variant("attn.bin", "", "int8", "symmetric_per_head"),
        Variant("", "scales.bin", "int8", "symmetric_per_head"),
        Variant("attn.bin", "", "int4", "symmetric_per_head_query_packed_int4")}

Shapes ==
  {<<b, h, q, k>> : b \in 1..MaxBatch, h \in 1..MaxH, q \in 1..MaxQ, k \in 1..MaxK}

\* The manifests the load is given: one variant under one canonical key, the
\* legacy single-file manifest, and a manifest whose shape is not a 4-array.
LoadManifests ==
  {Manifest(shape, "object", [k \in {key} |-> v], "", NoDefault) :
     shape \in Shapes, key \in {"fp32", "int8_phs_v1"}, v \in LoadVariants}
  \cup {Manifest(shape, "undefined", NoMap, "attn_weights.bin", NoDefault) :
          shape \in Shapes}
  \cup {Manifest(<<1, 2, 2>>, "undefined", NoMap, "attn_weights.bin", NoDefault)}

LoadPrecisions == {"auto", "int8"}

\* Array.isArray(shape) && shape.length === 4
ensureShapeThrows(manifest) == Len(manifest.attn_weights_shape) # 4

\* The bytes a payload file may hold: byte j of the file seeded with seed.
PayloadByte(seed, j) == (seed + 37 * j) % 256

PayloadSeeds == {31, 128}

\* The float32 words a file may hold: all distinct, so that a wrong index shows.
Word(j) == 3 + 2 * j

\* Lengths within MaxSlack of one of the lengths in near.
LengthsNear(near) ==
  {n + d : n \in near, d \in (0 - MaxSlack)..MaxSlack} \cap Nat

\* The buffers a 2xx response for a slot may carry, given the shape the manifest
\* declares: of a length some encoding implies, or up to MaxSlack off it; a
\* file of float32 words may also end in a stray byte.
Responses(slot, decoder, shape) ==
  LET hqk == shape[2] * shape[3] * shape[4]
      all == prod(shape)
  IN  IF slot = "s" THEN
        {Buffer([j \in 0..(n - 1) |-> Word(j)], 4, 0) :
           n \in LengthsNear({shape[2], shape[2] * shape[3]})}
        \cup {Buffer([j \in 0..(shape[2] - 1) |-> Word(j)], 4, 1)}
      ELSE IF decoder = "fp32" THEN
        {Buffer([j \in 0..(n - 1) |-> Word(j)], 4, 0) : n \in LengthsNear({hqk, all})}
        \cup {Buffer([j \in 0..(hqk - 1) |-> Word(j)], 4, 1)}
      ELSE
        {Buffer([j \in 0..(n - 1) |-> PayloadByte(seed, j)], 1, 0) :
           n \in LengthsNear({hqk, all, CeilHalf(hqk), CeilHalf(all)}),
           seed \in PayloadSeeds}

InitLoad ==
  /\ sceneJson \in LoadManifests
  /\ urlPrecision \in LoadPrecisions
  /\ ld_pc = "start"
  /\ ld_shape = <<>>
  /\ ld_resolved = Thrown("", "")
  /\ ld_decoder = "none"
  /\ fetches = [slot \in {"q", "s"} |-> NoFetch]
  /\ requests = [slot \in {"q", "s"} |-> 0]
  /\ ld_result = NoResult
  /\ ld_error = ""
  /\ InitIdleResolve
  /\ InitIdleNibble
  /\ InitIdleEngine
  /\ InitIdleUi

\* The decoder fetches a payload only.
SlotsOf_PayloadOnly(decoder) == {"q"}

\* The decoder fetches a payload and a scale file, whatever it is.
SlotsOf_Both(decoder) == {"q", "s"}

\* The slots a decoder fetches: the payload, and the scales for int8 and int4.
SlotsOf(decoder) == IF decoder = "fp32" THEN {"q"} ELSE {"q", "s"}

\* loadAttentionAsFloat32 up to its first await: ensureShape, the resolver, the
\* dispatch, and the chosen decoder up to the fetches it issues.
LoadBegin ==
  /\ ld_pc = "start"
  /\ IF ensureShapeThrows(sceneJson) THEN
       /\ ld_pc' = "error"
       /\ ld_error' = "invalid_shape"
       /\ UNCHANGED <<ld_shape, ld_resolved, ld_decoder, fetches, requests>>
     ELSE
       LET resolved == resolveAttentionVariant(sceneJson, urlPrecision)
           decoder == Dispatch(resolved.variant)
           early == PreFetchError(decoder, resolved.variant)
       IN  /\ ld_shape' = sceneJson.attn_weights_shape
           /\ ld_resolved' = resolved
           /\ IF resolved.threw THEN
                /\ ld_pc' = "error"
                /\ ld_error' = resolved.error
                /\ UNCHANGED <<ld_decoder, fetches, requests>>
              ELSE IF early # "" THEN
                /\ ld_pc' = "error"
                /\ ld_error' = early
                /\ ld_decoder' = decoder
                /\ UNCHANGED <<fetches, requests>>
              ELSE
                /\ ld_pc' = "awaiting"
                /\ ld_error' = ""
                /\ ld_decoder' = decoder
                /\ fetches' = [slot \in {"q", "s"} |->
                                 IF slot \in SlotsOf(decoder)
                                   THEN [state |-> "pending", buffer |-> NoBuffer]
                                   ELSE NoFetch]
                /\ requests' = [slot \in {"q", "s"} |->
                                  IF slot \in SlotsOf(decoder)
                                    THEN requests[slot] + 1 ELSE requests[slot]]
  /\ UNCHANGED <<enVars, uiVars, sceneJson, urlPrecision, ld_result, rsVars, nbVars>>

\* A fetch fails: the request rejects ("network") or the response is not ok
\* ("http"), and fetchArrayBufferOrThrow throws.  Promise.all, or the single
\* await of loadRawFp32, rejects the load at the first failure.
FetchFail(slot, kind) ==
  /\ fetches[slot].state = "pending"
  /\ fetches' = [fetches EXCEPT ![slot] = [state |-> kind, buffer |-> NoBuffer]]
  /\ IF ld_pc = "awaiting"
       THEN ld_pc' = "error" /\ ld_error' = "fetch_failed"
       ELSE UNCHANGED <<ld_pc, ld_error>>
  /\ UNCHANGED <<enVars, uiVars, sceneJson, urlPrecision, ld_shape, ld_resolved, ld_decoder, requests,
                 ld_result, rsVars, nbVars>>

\* A fetch succeeds with a buffer.  A buffer that arrives after the load has
\* been rejected is referenced by nothing and is not kept.
FetchOk(slot) ==
  /\ fetches[slot].state = "pending"
  /\ IF ld_pc = "awaiting"
       THEN \E buffer \in Responses(slot, ld_decoder, ld_shape) :
              fetches' = [fetches EXCEPT ![slot] = [state |-> "ok", buffer |-> buffer]]
       ELSE fetches' = [fetches EXCEPT ![slot] = [state |-> "ok", buffer |-> NoBuffer]]
  /\ UNCHANGED <<enVars, uiVars, sceneJson, urlPrecision, ld_pc, ld_shape, ld_resolved, ld_decoder,
                 requests, ld_result, ld_error, rsVars, nbVars>>

\* The decoder's result on the buffers fetched.
Decoded ==
  CASE ld_decoder = "int4" ->
         DecodeInt4Packed(fetches["q"].buffer, fetches["s"].buffer, ld_shape)
    [] ld_decoder = "int8" ->
         DecodeInt8PerHead(fetches["q"].buffer, fetches["s"].buffer, ld_shape)
    [] OTHER -> DecodeRawFp32(fetches["q"].buffer, ld_shape)

\* The continuation after the await: every fetch of the decoder has succeeded,
\* the decoder runs to its end and the load returns its result or throws.
LoadDecode ==
  /\ ld_pc = "awaiting"
  /\ \A slot \in SlotsOf(ld_decoder) : fetches[slot].state = "ok"
  /\ IF Decoded.threw THEN
       /\ ld_pc' = "error"
       /\ ld_error' = Decoded.error
       /\ UNCHANGED ld_result
     ELSE
       /\ ld_pc' = "done"
       /\ ld_result' = [float32 |-> Decoded.out,
                        shape |-> ld_shape,
                        selectedPrecision |-> ld_resolved.key,
                        fallbackUsed |-> ld_resolved.fallbackUsed,
                        requestedPrecision |-> ld_resolved.requested]
       /\ UNCHANGED ld_error
  /\ UNCHANGED <<enVars, uiVars, sceneJson, urlPrecision, ld_shape, ld_resolved, ld_decoder, fetches,
                 requests, rsVars, nbVars>>

NextLoad ==
  \/ LoadBegin
  \/ \E slot \in {"q", "s"} : FetchFail(slot, "network")
  \/ \E slot \in {"q", "s"} : FetchFail(slot, "http")
  \/ \E slot \in {"q", "s"} : FetchOk(slot)
  \/ LoadDecode

SpecLoad == InitLoad /\ [][NextLoad]_vars

\* The load returned a buffer that the given decoder produced.
DecodedBy(decoder) == ld_pc = "done" /\ ld_decoder = decoder

\* H*Q*K of the shape the load read from the manifest.
HQK == ld_shape[2] * ld_shape[3] * ld_shape[4]

\* The signed 4-bit value of element i in a packed byte array: the low four
\* bits of byte i >> 1 for even i, the high four for odd i, minus 16 from 8 on.
SignedNibble(packed, i) ==
  LET byte == packed[i \div 2]
      nibble == IF i % 2 = 0 THEN byte % 16 ELSE byte \div 16
  IN  IF nibble >= 8 THEN nibble - 16 ELSE nibble

\* C1: the int4 decode gives, for every flat index i below H*Q*K,
\* out[i] = signed_nibble(i) * scale[head(i)*Q + query(i)] with
\* head(i) = i div (Q*K) and query(i) = (i div K) mod Q; and for odd H*Q*K the
\* high nibble of the last byte changes no output element.
C1_Int4Decode ==
  DecodedBy("int4") =>
    LET packed == fetches["q"].buffer.elems
        scale == fetches["s"].buffer.elems
        Q == ld_shape[3]
        K == ld_shape[4]
        out == ld_result.float32
        last == ArrayLen(packed) - 1
    IN  /\ DOMAIN out = 0..(HQK - 1)
        /\ \A i \in 0..(HQK - 1) :
             out[i] = SignedNibble(packed, i)
                        * scale[(i \div (Q * K)) * Q + ((i \div K) % Q)]
        /\ HQK % 2 = 1 =>
             \A high \in 0..15 :
               DecodeInt4Packed(
                 Buffer([packed EXCEPT ![last] = (packed[last] % 16) + 16 * high], 1, 0),
                 fetches["s"].buffer, ld_shape).out = out

\* C1 witness: a [1,1,1,3] tensor (odd element count, two bytes 0x1F 0x44) was
\* decoded with the scale 3 of its only row.
C1_Witness ==
  /\ DecodedBy("int4")
  /\ ld_shape = <<1, 1, 1, 3>>
  /\ fetches["q"].buffer.elems = ArrayOf(<<31, 68>>)
  /\ ld_result.float32 = ArrayOf(<<-3, 3, 12>>)

\* C3: the int8 decode gives out[i] = q[i] * scale[i div (Q*K)] for every
\* element, q being the payload bytes read as signed 8-bit integers.
C3_Int8Decode ==
  DecodedBy("int8") =>
    LET bytes == fetches["q"].buffer.elems
        scale == fetches["s"].buffer.elems
        out == ld_result.float32
    IN  /\ DOMAIN out = 0..(HQK - 1)
        /\ \A i \in 0..(HQK - 1) :
             out[i] = (IF bytes[i] > 127 THEN bytes[i] - 256 ELSE bytes[i])
                        * scale[i \div (ld_shape[3] * ld_shape[4])]

\* C3 witness: a [1,2,2,2] tensor was decoded; its first element -128 carries
\* head 0's scale 3 and its last element -125 carries head 1's scale 5.
C3_Witness ==
  /\ DecodedBy("int8")
  /\ ld_shape = <<1, 2, 2, 2>>
  /\ ld_result.float32[0] = -384
  /\ ld_result.float32[7] = -625

\* C4: whenever loadAttentionAsFloat32 returns, the float32 buffer it returns
\* has exactly H*Q*K elements, whatever the encoding.
C4_ShapeInvariant ==
  ld_pc = "done" => ArrayLen(ld_result.float32) = HQK

\* The payload length the decoder's encoding implies, and the scale length.
ExpectedPayload(decoder) == IF decoder = "int4" THEN CeilHalf(HQK) ELSE HQK

ExpectedScales(decoder) == IF decoder = "int4" THEN ld_shape[2] * ld_shape[3] ELSE ld_shape[2]

\* C5: a payload whose length differs from the expected count (H*Q*K values for
\* fp32 and int8, ceil(H*Q*K/2) bytes for int4), or a scale array whose length
\* differs from H (int8) or H*Q (int4), makes the decode raise: the load never
\* returns with such a payload or scale array.
C5_LengthExact ==
  ld_pc = "done" =>
    /\ ArrayLen(fetches["q"].buffer.elems) = ExpectedPayload(ld_decoder)
    /\ fetches["q"].buffer.tail = 0
    /\ ld_decoder # "fp32" =>
         /\ ArrayLen(fetches["s"].buffer.elems) = ExpectedScales(ld_decoder)
         /\ fetches["s"].buffer.tail = 0

\* C6: a manifest whose batch dimension is not 1 makes the decode raise for
\* every encoding: the load never returns for such a manifest.
C6_BatchRejected ==
  ld_pc = "done" => ld_shape[1] = 1

\* The variant's dtype/encoding pair is one of the three recognized ones; a
\* field the manifest omits is not held against it (the manifest format of
\* section 6 of the spec names no dtype, and no encoding for fp32).
Recognized(variant) ==
  \/ variant.dtype \in {"", "float32"} /\ variant.encoding \in {"", "raw"}
  \/ variant.dtype \in {"", "int8"} /\ variant.encoding = "symmetric_per_head"
  \/ /\ variant.dtype \in {"", "int4"}
     /\ variant.encoding = "symmetric_per_head_query_packed_int4"

\* C7: a resolved variant whose dtype/encoding pair is not recognized makes the
\* load raise: the load never returns a buffer decoded from such a variant.
C7_UnrecognizedRejected ==
  ld_pc = "done" => Recognized(ld_resolved.variant)

\* A fetch that ended in a network error or a response that is not ok.
Failed(slot) == fetches[slot].state \in {"network", "http"}

\* C23: for an int8 or int4 variant both fetches are issued before either is
\* awaited (none is outstanding or settled while the other is not yet
\* issued); the load returns its buffer only when both fetches have
\* succeeded; if either fetch fails the load rejects and returns no buffer.
C23_BothAwaited ==
  ld_decoder \in {"int8", "int4"} =>
    /\ (\E slot \in {"q", "s"} : fetches[slot].state # "none")
         => \A slot \in {"q", "s"} : fetches[slot].state # "none" /\ requests[slot] = 1
    /\ ld_pc = "done" => \A slot \in {"q", "s"} : fetches[slot].state = "ok"
    /\ (\E slot \in {"q", "s"} : Failed(slot)) => ld_pc = "error" /\ ld_result = NoResult

\* C23, its case: an int4 load that returned its buffer.
C23_Witness ==
  /\ ld_decoder = "int4"
  /\ ld_pc = "done"
  /\ ld_result # NoResult
  /\ \A slot \in {"q", "s"} : fetches[slot].state = "ok"

\* C24: within one load no file is requested more than once; once the load
\* awaits or has returned, the payload, and the scale file for int8 and
\* int4, have been requested exactly once and nothing else; after a fetch
\* has failed the load has rejected with that error.
C24_NoRetries ==
  /\ \A slot \in {"q", "s"} : requests[slot] <= 1
  /\ ld_pc \in {"awaiting", "done"} =>
       /\ requests["q"] = 1
       /\ requests["s"] = IF ld_decoder \in {"int8", "int4"} THEN 1 ELSE 0
  /\ \A slot \in {"q", "s"} :
       Failed(slot) => /\ requests[slot] = 1
                       /\ ld_pc = "error"
                       /\ ld_error = "fetch_failed"

\* C24, its case: the payload of an int8 load came back with a status that
\* is not ok, after the scale file had arrived.
C24_Witness ==
  /\ ld_decoder = "int8"
  /\ fetches["q"].state = "http"
  /\ fetches["s"].state = "ok"
  /\ ld_pc = "error"
  /\ requests = [slot \in {"q", "s"} |-> 1]

\* ------------------------------------------------------ JavaScript numbers
\*
\* A finite number is the fraction n/d in lowest terms
\* (the tensor holds whole numbers, and the quotients taken of them are
\* kept exact); NaN, -Infinity and the value undefined are values of their own.

RECURSIVE GCD(_, _)
GCD(a, b) == IF b = 0 THEN a ELSE GCD(b, a % b)

Ratio(n, d) ==
  LET g == GCD(IF n < 0 THEN -n ELSE n, d)
  IN  [k |-> "fin", n |-> n \div g, d |-> d \div g]

Fin(n) == Ratio(n, 1)

NaN == [k |-> "nan", n |-> 0, d |-> 1]

NegInfinity == [k |-> "-inf", n |-> 0, d |-> 1]

Undefined == [k |-> "undefined", n |-> 0, d |-> 1]

\* a + b: NaN unless both are finite (undefined converts to NaN).
NumAdd(a, b) ==
  IF a.k = "fin" /\ b.k = "fin" THEN Ratio(a.n * b.d + b.n * a.d, a.d * b.d) ELSE NaN

\* a / m for a whole number m >= 0; 0 / 0 is NaN.
NumDiv(a, m) ==
  IF a.k # "fin" THEN NaN
  ELSE IF m = 0 THEN (IF a.n = 0 THEN NaN
                      ELSE [k |-> IF a.n > 0 THEN "inf" ELSE "-inf", n |-> 0, d |-> 1])
  ELSE Ratio(a.n, a.d * m)

\* a > b: false whenever one side is NaN or undefined.
NumGreater(a, b) == a.k = "fin" /\ b.k = "fin" /\ a.n * b.d > b.n * a.d

\* Math.max(...values): -Infinity of nothing, NaN if any value is not a number.
MathMax(values) ==
  IF values = <<>> THEN NegInfinity
  ELSE IF \E i \in DOMAIN values : values[i].k # "fin" THEN NaN
  ELSE values[CHOOSE i \in DOMAIN values :
                \A j \in DOMAIN values : ~NumGreater(values[j], values[i])]

\* values.reduce((sum, val) => sum + val, 0)
RECURSIVE SumOf(_)
SumOf(values) ==
  IF values = <<>> THEN Fin(0)
  ELSE NumAdd(SumOf(SubSeq(values, 1, Len(values) - 1)), values[Len(values)])

\* ------------------------------------------------------- the token layout
\*
\* Both visualizers (InverseAttentionVisualizer and ForwardAttentionVisualizer)
\* lay the key dimension of the tensor out per camera in _buildPatchInfo.
\* Camera names are strings of ASCII letters; an image is its height and
\* width in pixels.

MaxCams == 3

\* The UTF-16 code units of the camera names in use.
CodeUnits(name) ==
  CASE name = "B" -> <<66>>
    [] name = "a" -> <<97>>
    [] name = "front" -> <<102, 114, 111, 110, 116>>
    [] name = "left" -> <<108, 101, 102, 116>>
    [] OTHER -> <<122, 122>>

\* Three-way comparison of two sequences of numbers, first difference first,
\* a proper prefix before the longer sequence.
SeqCompare(x, y) ==
  LET n == IF Len(x) < Len(y) THEN Len(x) ELSE Len(y)
      diff == {i \in 1..n : x[i] # y[i]}
      first == CHOOSE i \in diff : \A j \in diff : i <= j
  IN  IF diff # {} THEN (IF x[first] < y[first] THEN -1 ELSE 1)
      ELSE IF Len(x) < Len(y) THEN -1
      ELSE IF Len(x) > Len(y) THEN 1
      ELSE 0

\* String.prototype.localeCompare without a locale argument, on strings of
\* ASCII letters: the collation of the host compares the letters without
\* regard to case first, and only if that finds no difference puts a
\* lower-case letter before the same letter in upper case.
localeCompare(a, b) ==
  LET IsUpper(c) == c \in 65..90
      primary(s) == [i \in DOMAIN s |-> IF IsUpper(s[i]) THEN s[i] + 32 ELSE s[i]]
      tertiary(s) == [i \in DOMAIN s |-> IF IsUpper(s[i]) THEN 1 ELSE 0]
      byLetter == SeqCompare(primary(CodeUnits(a)), primary(CodeUnits(b)))
  IN  IF byLetter # 0 THEN byLetter
      ELSE SeqCompare(tertiary(CodeUnits(a)), tertiary(CodeUnits(b)))

\* The cameras in the order they were given (no sort at all).
SortByName_Unsorted(cameras) == cameras

\* cameras.sort((a, b) => a.name.localeCompare(b.name)): a stable sort, so
\* each camera goes behind the cameras before it that do not compare greater.
RECURSIVE SortByName(_)
SortByName(cameras) ==
  IF cameras = <<>> THEN <<>>
  ELSE LET n == Len(cameras)
           rest == SortByName(SubSeq(cameras, 1, n - 1))
           x == cameras[n]
           k == Cardinality({i \in DOMAIN rest : localeCompare(rest[i].name, x.name) <= 0})
       IN  SubSeq(rest, 1, k) \o <<x>> \o SubSeq(rest, k + 1, Len(rest))

\* No token is skipped before a camera's patches.
ClsSkip_None(hasClsTokens) == 0

\* if (this.hasClsTokens) currentIdx += 1: the CLS token before the patches.
ClsSkip(hasClsTokens) == IF hasClsTokens THEN 1 ELSE 0

PatchInfo(camName, camIdx, startIdx, nPatches, patchH, patchW, imgH, imgW, hScale, wScale) ==
  [camName |-> camName, camIdx |-> camIdx, startIdx |-> startIdx,
   nPatches |-> nPatches, patchH |-> patchH, patchW |-> patchW,
   imgH |-> imgH, imgW |-> imgW, hScale |-> hScale, wScale |-> wScale]

\* The forEach of _buildPatchInfo over the sorted cameras, from the cursor
\* currentIdx on.
RECURSIVE WalkCameras(_, _, _, _)
WalkCameras(cameras, currentIdx, patchSize, hasClsTokens) ==
  IF cameras = <<>> THEN <<>>
  ELSE LET c == Head(cameras)
           H == c.img.height
           W == c.img.width
           patchH == H \div patchSize
           patchW == W \div patchSize
           nPatches == patchH * patchW
           hScale == NumDiv(Fin(c.origImg.height), H)
           wScale == NumDiv(Fin(c.origImg.width), W)
           startIdx == currentIdx + ClsSkip(hasClsTokens)
       IN  <<PatchInfo(c.name, c.idx, startIdx, nPatches, patchH, patchW, H, W,
                       hScale, wScale)>>
             \o WalkCameras(Tail(cameras), startIdx + nPatches, patchSize, hasClsTokens)

\* _buildPatchInfo of either visualizer: the list of PatchInfo, or the error
\* the forward visualizer throws for an image of zero height or width.
_buildPatchInfo(kind, cameraNames, cameraImages, originalImages, patchSize, hasClsTokens) ==
  LET cameras == SortByName([i \in DOMAIN cameraNames |->
                     [name |-> cameraNames[i], idx |-> i - 1, img |-> cameraImages[i],
                      origImg |-> originalImages[i]]])
      zeroSize == \E i \in DOMAIN cameras :
                     cameras[i].img.height = 0 \/ cameras[i].img.width = 0
  IN  IF kind = "forward" /\ zeroSize
      THEN [threw |-> TRUE, error |-> "zero_size", infos |-> <<>>]
      ELSE [threw |-> FALSE, error |-> "",
            infos |-> WalkCameras(cameras, 0, patchSize, hasClsTokens)]

\* new InverseAttentionVisualizer(...) / new ForwardAttentionVisualizer(...)
\* on a flat Float32Array: the object constructed, or the error thrown.
\* kSize is a field of the forward visualizer only.
Visualizer(kind, attnWeights, cameraImages, cameraNames, options) ==
  LET built == _buildPatchInfo(kind, cameraNames, cameraImages, options.originalImages,
                               options.patchSize, options.hasClsTokens)
  IN  [kind |-> kind, threw |-> built.threw, error |-> built.error,
       attnWeightsFlat |-> attnWeights,
       attnWeightsShape |-> options.attnWeightsShape,
       cameraNames |-> cameraNames,
       gridSize |-> options.gridSize,
       patchSize |-> options.patchSize,
       hasClsTokens |-> options.hasClsTokens,
       nQueries |-> options.gridSize * options.gridSize,
       nHeads |-> options.attnWeightsShape[2],
       kSize |-> options.attnWeightsShape[4],
       patchInfo |-> built.infos]

\* getCameraInfo(camName): the PatchInfo under that name, if any.
HasCamera(eng, camName) == \E i \in DOMAIN eng.patchInfo : eng.patchInfo[i].camName = camName

getCameraInfo(eng, camName) ==
  eng.patchInfo[CHOOSE i \in DOMAIN eng.patchInfo :
                  /\ eng.patchInfo[i].camName = camName
                  /\ \A j \in DOMAIN eng.patchInfo :
                       eng.patchInfo[j].camName = camName => j <= i]

\* --------------------------------------------------- the UI display order

UI_ORDER ==
  [av2 |-> <<"ring_rear_left", "ring_side_left", "ring_front_left", "ring_front_center",
             "ring_front_right", "ring_side_right", "ring_rear_right">>,
   nuscenes |-> <<"cam_back_left", "cam_front_left", "cam_front", "cam_front_right",
                  "cam_back_right", "cam_back">>,
   waymo |-> <<"left", "front_left", "front", "front_right", "right">>,
   once |-> <<"cam05", "cam06", "cam01", "cam07", "cam08", "cam09">>]

\* Object.keys(UI_ORDER), in insertion order.
UI_ORDER_keys == <<"av2", "nuscenes", "waymo", "once">>

\* canonicalizeName on the camera names in use: trimmed and lower-cased.
canonicalizeName(name) == IF name = "B" THEN "b" ELSE name

\* normalizeForDataset on those canonical names: "front" has an alias in the
\* av2 and nuscenes tables, no other name has one.
normalizeForDataset(nameCanon, dataset) ==
  IF nameCanon = "" THEN ""
  ELSE IF dataset = "av2" /\ nameCanon = "front" THEN "ring_front_center"
  ELSE IF dataset = "nuscenes" /\ nameCanon = "front" THEN "cam_front"
  ELSE nameCanon

\* The loop "for (const want of desired)" of orderCameraNamesForUi: the
\* positions in the list of the names it picks, in the order it picks them.
RECURSIVE MatchDesired(_, _, _)
MatchDesired(desired, canon, used) ==
  IF desired = <<>> THEN <<>>
  ELSE LET free == {i \in DOMAIN canon : i \notin used /\ canon[i] = Head(desired)}
           idx == CHOOSE i \in free : \A j \in free : i <= j
       IN  IF free = {} THEN MatchDesired(Tail(desired), canon, used)
           ELSE <<idx>> \o MatchDesired(Tail(desired), canon, used \cup {idx})

\* orderCameraNamesForUi(names, datasetHint); datasetHint "" stands for null.
\* The result is a new array: names itself is never written.
orderCameraNamesForUi(names, datasetHint) ==
  LET hint == datasetHint
      datasets == IF hint \in DOMAIN UI_ORDER
                  THEN <<hint>> \o SelectSeq(UI_ORDER_keys, LAMBDA ds : ds # hint)
                  ELSE UI_ORDER_keys
      OrderedFor(dataset) ==
        LET canon == [i \in DOMAIN names |->
                        normalizeForDataset(canonicalizeName(names[i]), dataset)]
            picked == MatchDesired(UI_ORDER[dataset], canon, {})
            used == {picked[j] : j \in DOMAIN picked}
            unusedIdx == SelectSeq([i \in DOMAIN names |-> i], LAMBDA i : i \notin used)
        IN  [ordered |-> [j \in DOMAIN picked |-> names[picked[j]]]
                           \o [j \in DOMAIN unusedIdx |-> names[unusedIdx[j]]],
             matchCount |-> Len(picked)]
      candidates == [d \in DOMAIN datasets |-> OrderedFor(datasets[d])]
      \* best is replaced only by a strictly greater matchCount
      bestIdx == CHOOSE d \in DOMAIN candidates :
                   /\ \A e \in DOMAIN candidates :
                        candidates[e].matchCount <= candidates[d].matchCount
                   /\ \A e \in 1..(d - 1) :
                        candidates[e].matchCount < candidates[d].matchCount
      minMatches == IF hint # "" THEN 1 ELSE 2
  IN  IF names = <<>> THEN <<>>
      ELSE IF candidates[bestIdx].matchCount >= minMatches
           THEN candidates[bestIdx].ordered
      ELSE names

\* The display order loadSceneData returns next to the visualizer.
DisplayOrder(data) ==
  LET metadata == data.metadata
      image_names == data.image_names
      Includes(list, name) == \E i \in DOMAIN list : list[i] = name
      helperOrder == orderCameraNamesForUi(image_names, metadata.dataset)
      helperReordered ==
        /\ Len(helperOrder) = Len(image_names)
        /\ \E i \in DOMAIN helperOrder : helperOrder[i] # image_names[i]
      baseOrder == SelectSeq(metadata.image_display_order,
                             LAMBDA name : Includes(image_names, name))
      missing == SelectSeq(image_names, LAMBDA name : ~Includes(baseOrder, name))
  IN  IF helperReordered THEN helperOrder
      ELSE IF Len(metadata.image_display_order) > 0 THEN baseOrder \o missing
      ELSE image_names

\* x || d for a number x (0 stands for a field the manifest omits).
OrDefault(x, d) == IF x = 0 THEN d ELSE x

\* loadSceneData once the images and the tensor are loaded: construct the
\* visualizer, then compute the display order, and return both; an error
\* thrown by the constructor is rethrown.
LoadSceneData ==
  /\ en_pc = "loading"
  /\ LET metadata == scene.metadata
         options == [gridSize |-> OrDefault(metadata.grid_size, 32),
                     patchSize |-> OrDefault(metadata.patch_size, 14),
                     hasClsTokens |-> metadata.has_cls_tokens,
                     originalImages |-> scene.originalImages,
                     attnWeightsShape |-> scene.attn_weights_shape]
         visualizer == Visualizer(scene.kind, scene.attnWeights, scene.images,
                                  scene.image_names, options)
     IN  IF visualizer.threw
         THEN /\ en_pc' = "threw"
              /\ UNCHANGED <<engine, imageDisplayOrder>>
         ELSE /\ en_pc' = "loaded"
              /\ engine' = visualizer
              /\ imageDisplayOrder' = DisplayOrder(scene)
  /\ UNCHANGED <<scene, call, outcome, sceneJson, urlPrecision, rsVars, nbVars, ldVars, uiVars>>

\* ---------------------------------------------- scenes for the token layout

Image(height, width) == [height |-> height, width |-> width]

\* A loaded image: larger than a patch, not a multiple of it, or of no height.
LayoutImages == {Image(4, 4), Image(3, 5), Image(0, 4)}

CameraPool == {"B", "a", "front", "left"}

\* The lists of n distinct camera names.
NameLists(n) ==
  {names \in [1..n -> CameraPool] : \A i, j \in 1..n : names[i] = names[j] => i = j}

\* A tensor payload of n float32 values 0, 1, 2, ...
Sequential(n) == [i \in 0..(n - 1) |-> i]

Metadata(grid_size, patch_size, has_cls_tokens, dataset, image_display_order) ==
  [grid_size |-> grid_size, patch_size |-> patch_size,
   has_cls_tokens |-> has_cls_tokens, dataset |-> dataset,
   image_display_order |-> image_display_order]

\* originalImages are the images themselves unless the manifest lists
\* original_image_files.
SceneData(kind, image_names, images, originalImages, attn_weights_shape, attnWeights, metadata) ==
  [kind |-> kind, image_names |-> image_names, images |-> images,
   originalImages |-> originalImages,
   attn_weights_shape |-> attn_weights_shape, attnWeights |-> attnWeights,
   metadata |-> metadata]

\* Scenes of 1..MaxCams cameras whose manifest declares a tensor of 4 keys,
\* which some of the layouts cover and others do not.
InitLayout ==
  /\ \E n \in 1..MaxCams :
       \E kind \in {"inverse", "forward"},
          names \in NameLists(n),
          images \in [1..n -> LayoutImages],
          cls \in BOOLEAN,
          dataset \in {"", "av2"},
          order \in {<<>>, <<"left", "zz", "a">>} :
         scene = SceneData(kind, names, images, images, <<1, 1, 1, 4>>, Sequential(4),
                           Metadata(1, 2, cls, dataset, order))
  /\ en_pc = "loading"
  /\ engine = NoEngine
  /\ imageDisplayOrder = <<>>
  /\ call = NoCall
  /\ outcome = NoOutcome
  /\ sceneJson = Manifest(ValidShape, "undefined", NoMap, "", NoDefault)
  /\ urlPrecision = ""
  /\ InitIdleResolve
  /\ InitIdleNibble
  /\ InitIdleLoad
  /\ InitIdleUi

NextLayout == LoadSceneData

SpecLayout == InitLayout /\ [][NextLayout]_vars

\* The names of the layout, in the order _buildPatchInfo walked them.
LayoutNames == [i \in DOMAIN engine.patchInfo |-> engine.patchInfo[i].camName]

\* C13: _buildPatchInfo walks the cameras in ascending case-sensitive byte
\* order of their names and assigns startIdx in that order: of two cameras of
\* the layout the earlier one has the smaller name, byte by byte, and no
\* greater a startIdx.
C13_ByteOrderLayout ==
  en_pc = "loaded" =>
    \A i, j \in DOMAIN engine.patchInfo :
      i < j => /\ SeqCompare(CodeUnits(LayoutNames[i]), CodeUnits(LayoutNames[j])) < 0
               /\ engine.patchInfo[i].startIdx <= engine.patchInfo[j].startIdx

\* The token range [startIdx, startIdx + nPatches) of the i-th camera.
TokenRange(i) ==
  LET info == engine.patchInfo[i]
  IN  info.startIdx .. (info.startIdx + info.nPatches - 1)

\* C14: in layout order the first camera starts at (hasClsTokens ? 1 : 0),
\* each following one at previous.startIdx + previous.nPatches +
\* (hasClsTokens ? 1 : 0), nPatches = floor(H/patchSize) * floor(W/patchSize)
\* of the camera's image; no two ranges share an index and no range holds a
\* CLS position.
C14_Contiguous ==
  en_pc = "loaded" =>
    LET p == engine.patchInfo
        cls == IF scene.metadata.has_cls_tokens THEN 1 ELSE 0
        ps == scene.metadata.patch_size
        clsPositions == IF cls = 1 THEN {p[i].startIdx - 1 : i \in DOMAIN p} ELSE {}
    IN  /\ Len(p) = Len(scene.image_names)
        /\ p[1].startIdx = cls
        /\ \A i \in DOMAIN p :
             /\ i > 1 => p[i].startIdx = p[i - 1].startIdx + p[i - 1].nPatches + cls
             /\ p[i].nPatches = (scene.images[p[i].camIdx + 1].height \div ps)
                                  * (scene.images[p[i].camIdx + 1].width \div ps)
             /\ scene.image_names[p[i].camIdx + 1] = p[i].camName
             /\ TokenRange(i) \cap clsPositions = {}
        /\ \A i, j \in DOMAIN p : i # j => TokenRange(i) \cap TokenRange(j) = {}

\* C14, its case: CLS tokens and three cameras with patches.
C14_Witness ==
  /\ en_pc = "loaded"
  /\ scene.metadata.has_cls_tokens
  /\ Len(engine.patchInfo) = 3
  /\ \A i \in DOMAIN engine.patchInfo : engine.patchInfo[i].nPatches > 0
  /\ \E i \in DOMAIN engine.patchInfo : engine.patchInfo[i].nPatches = 2

RECURSIVE SumPatches(_)
SumPatches(infos) ==
  IF infos = <<>> THEN 0 ELSE Head(infos).nPatches + SumPatches(Tail(infos))

\* C15: for every visualizer that was constructed, the sum of nPatches over
\* its cameras plus (hasClsTokens ? number of cameras : 0) equals K, the key
\* dimension attn_weights_shape[3] of the tensor it indexes.
C15_LayoutCoversK ==
  en_pc = "loaded" =>
    SumPatches(engine.patchInfo)
      + (IF engine.hasClsTokens THEN Len(engine.patchInfo) ELSE 0)
      = engine.attnWeightsShape[4]

\* The mapping camName -> (startIdx, nPatches) of a layout.
LayoutMapping(infos) ==
  {<<infos[i].camName, infos[i].startIdx, infos[i].nPatches>> : i \in DOMAIN infos}

\* The layout _buildPatchInfo gives the scene's cameras listed in the order
\* order[1], order[2], ... of their positions.
LayoutOfOrder(order) ==
  _buildPatchInfo(scene.kind,
                  [i \in DOMAIN order |-> scene.image_names[order[i]]],
                  [i \in DOMAIN order |-> scene.images[order[i]]],
                  [i \in DOMAIN order |-> scene.originalImages[order[i]]],
                  engine.patchSize, engine.hasClsTokens).infos

\* C16: every permutation of the scene's camera list (distinct names, each
\* name with its image) gives the mapping camName -> (startIdx, nPatches) the
\* visualizer has, and so does the list in the display order loadSceneData
\* returned: the display order changes no startIdx.
C16_OrderIndependent ==
  en_pc = "loaded" =>
    LET n == Len(scene.image_names)
        perms == {f \in [1..n -> 1..n] : \A i, j \in 1..n : f[i] = f[j] => i = j}
        PositionOf(name) == CHOOSE i \in 1..n : scene.image_names[i] = name
    IN  /\ \A f \in perms : LayoutMapping(LayoutOfOrder(f)) = LayoutMapping(engine.patchInfo)
        /\ Len(imageDisplayOrder) = n
        /\ LayoutMapping(LayoutOfOrder([i \in 1..n |-> PositionOf(imageDisplayOrder[i])]))
             = LayoutMapping(engine.patchInfo)

\* C16, its case: three cameras given out of layout order, with different
\* patch counts, displayed in an order that is neither the given one nor the
\* layout's.
C16_Witness ==
  /\ en_pc = "loaded"
  /\ Len(scene.image_names) = 3
  /\ LayoutNames # scene.image_names
  /\ imageDisplayOrder # scene.image_names
  /\ imageDisplayOrder # LayoutNames
  /\ \E i, j \in DOMAIN engine.patchInfo :
       engine.patchInfo[i].nPatches # engine.patchInfo[j].nPatches

\* ------------------------------------------------------------- the queries

MaxHeads == 2

MaxSel == 2

\* The index with the query and head strides exchanged.
FlatIndex_QueryMajor(shape, b, h, q, k) ==
  b * shape[2] * shape[3] * shape[4] + q * shape[2] * shape[4] + h * shape[4] + k

\* idx = b*d2*d3*d4 + h*d3*d4 + q*d4 + k
FlatIndex(shape, b, h, q, k) ==
  b * shape[2] * shape[3] * shape[4] + h * shape[3] * shape[4] + q * shape[4] + k

\* _getAttnFlat(b, h, q, k): a read past either end of the Float32Array
\* gives undefined.
_getAttnFlat(eng, b, h, q, k) ==
  LET idx == FlatIndex(eng.attnWeightsShape, b, h, q, k)
  IN  IF idx \in DOMAIN eng.attnWeightsFlat THEN Fin(eng.attnWeightsFlat[idx])
      ELSE Undefined

\* let sum = 0; for (h = 0; h < H; h++) sum += _getAttnFlat(0, h, q, k)
RECURSIVE SumHeads(_, _, _, _)
SumHeads(eng, H, q, k) ==
  IF H = 0 THEN Fin(0)
  ELSE NumAdd(SumHeads(eng, H - 1, q, k), _getAttnFlat(eng, 0, H - 1, q, k))

\* options.headIdx: null, or a number.
NullHead == [null |-> TRUE, h |-> 0]

HeadIdx(h) == [null |-> FALSE, h |-> h]

Options(meanHeads, headIdx, aggregation) ==
  [meanHeads |-> meanHeads, headIdx |-> headIdx, aggregation |-> aggregation]

QueryThrown(error) == [threw |-> TRUE, error |-> error, value |-> <<>>]

QueryReturned(value) == [threw |-> FALSE, error |-> "", value |-> value]

\* The mean divides by the number of heads.
MeanDivisor_Heads(qAttn, H) == H

\* sum / qAttn.length
MeanDivisor(qAttn, H) == Len(qAttn)

\* getInverseAttention(patchIndices, options) on the flat tensor.
getInverseAttention(eng, patchIndices, options) ==
  LET Q == eng.nQueries
      H == eng.nHeads
      qAttn(q) ==
        [j \in DOMAIN patchIndices |->
           IF options.meanHeads
           THEN NumDiv(SumHeads(eng, H, q, patchIndices[j]), H)
           ELSE _getAttnFlat(eng, 0, options.headIdx.h, q, patchIndices[j])]
      bevAttn(q) ==
        CASE options.aggregation = "sum" -> SumOf(qAttn(q))
          [] options.aggregation = "max" -> MathMax(qAttn(q))
          [] OTHER -> NumDiv(SumOf(qAttn(q)), MeanDivisor(qAttn(q), H))
  IN  IF ~options.meanHeads /\ options.headIdx.null
      THEN QueryThrown("Specify headIdx or set meanHeads=true")
      ELSE IF options.aggregation \notin {"sum", "max", "mean"}
      THEN QueryThrown("Unknown aggregation")
      ELSE QueryReturned([y \in 0..(eng.gridSize - 1) |->
                            [x \in 0..(eng.gridSize - 1) |-> bevAttn(y * eng.gridSize + x)]])

\* The first head's element, whatever the head selection.
PatchValue_FirstHead(eng, queryIdx, kIdx, options) == _getAttnFlat(eng, 0, 0, queryIdx, kIdx)

\* The value a patch gets in the forward queries: the mean over the heads or
\* the selected head's element (the caller has excluded a null headIdx).
PatchValue(eng, queryIdx, kIdx, options) ==
  IF options.meanHeads
  THEN NumDiv(SumHeads(eng, eng.nHeads, queryIdx, kIdx), eng.nHeads)
  ELSE _getAttnFlat(eng, 0, options.headIdx.h, queryIdx, kIdx)

\* A store into a Float32Array: undefined becomes NaN; the finite values that
\* arise are whole numbers and halves, which a float32 holds exactly.
ToFloat32(v) == IF v.k = "undefined" THEN NaN ELSE v

\* getCameraPatchAttentionForQuery(queryIdx, camName, options): the throw
\* for a missing head selection is inside the loop over the patches.
getCameraPatchAttentionForQuery(eng, queryIdx, camName, options) ==
  IF ~HasCamera(eng, camName) THEN QueryThrown("Unknown camera")
  ELSE LET info == getCameraInfo(eng, camName)
       IN  IF info.nPatches > 0 /\ ~options.meanHeads /\ options.headIdx.null
           THEN QueryThrown("Specify headIdx or set meanHeads=true")
           ELSE QueryReturned([i \in 0..(info.nPatches - 1) |->
                  ToFloat32(PatchValue(eng, queryIdx, info.startIdx + i, options))])

\* The running maximum of getGlobalMaxPatchAttentionForQuery over a list of
\* values, from maxVal on: if (v > maxVal) maxVal = v.
RECURSIVE RunningMax(_, _)
RunningMax(values, maxVal) ==
  IF values = <<>> THEN maxVal
  ELSE RunningMax(Tail(values),
                  IF NumGreater(Head(values), maxVal) THEN Head(values) ELSE maxVal)

\* The values getGlobalMaxPatchAttentionForQuery visits for the cameras
\* names[1], names[2], ..., each camera's patches in turn.
RECURSIVE VisitedValues(_, _, _, _)
VisitedValues(eng, names, queryIdx, options) ==
  IF names = <<>> THEN <<>>
  ELSE LET info == getCameraInfo(eng, Head(names))
           rest == VisitedValues(eng, Tail(names), queryIdx, options)
       IN  IF ~HasCamera(eng, Head(names)) THEN rest
           ELSE [i \in 1..info.nPatches |->
                   PatchValue(eng, queryIdx, info.startIdx + i - 1, options)] \o rest

\* getGlobalMaxPatchAttentionForQuery(queryIdx, options)
getGlobalMaxPatchAttentionForQuery(eng, queryIdx, options) ==
  IF /\ ~options.meanHeads /\ options.headIdx.null
     /\ \E i \in DOMAIN eng.patchInfo : eng.patchInfo[i].nPatches > 0
  THEN QueryThrown("Specify headIdx or set meanHeads=true")
  ELSE QueryReturned(RunningMax(VisitedValues(eng, eng.cameraNames, queryIdx, options),
                                Fin(0)))

\* ------------------------------------------------- scenes for the queries

\* The tensor whose element (h, q, k) is 100*h + 10*q + k, flattened in
\* row-major order to the payload of a tensor of that shape.
Digits(shape) ==
  [i \in 0..(shape[2] * shape[3] * shape[4] - 1) |->
     100 * (i \div (shape[3] * shape[4])) + 10 * ((i \div shape[4]) % shape[3])
       + (i % shape[4])]

\* A payload of n values of either sign, as dequantization produces them:
\* -(n/2), ..., -1, 0, 1, ...
Centred(n) == [i \in 0..(n - 1) |-> i - (n \div 2)]

\* Two scenes whose layout covers K = 6 keys: three cameras of two patches
\* without CLS tokens ("a" at 0, "front" at 2, "left" at 4), and with CLS
\* tokens a camera of four patches ("a" at 1) and one of none ("B" at 6).
QueryCameras ==
  {[image_names |-> <<"left", "front", "a">>,
    images |-> <<Image(3, 5), Image(3, 5), Image(3, 5)>>,
    has_cls_tokens |-> FALSE],
   [image_names |-> <<"B", "a">>,
    images |-> <<Image(1, 4), Image(4, 4)>>,
    has_cls_tokens |-> TRUE]}

\* Tensors of shape [1, H, 4, 6] for a grid of 2 x 2 queries.
QueryShapes == {<<1, H, 4, 6>> : H \in 1..MaxHeads}

InitQuery ==
  /\ \E kind \in {"inverse", "forward"}, cams \in QueryCameras, shape \in QueryShapes :
       \E attnWeights \in {Sequential(shape[2] * shape[3] * shape[4]), Digits(shape),
                           Centred(shape[2] * shape[3] * shape[4])} :
         scene = SceneData(kind, cams.image_names, cams.images, cams.images, shape,
                           attnWeights,
                           Metadata(2, 2, cams.has_cls_tokens, "", <<>>))
  /\ en_pc = "loading"
  /\ engine = NoEngine
  /\ imageDisplayOrder = <<>>
  /\ call = NoCall
  /\ outcome = NoOutcome
  /\ sceneJson = Manifest(ValidShape, "undefined", NoMap, "", NoDefault)
  /\ urlPrecision = ""
  /\ InitIdleResolve
  /\ InitIdleNibble
  /\ InitIdleLoad
  /\ InitIdleUi

\* The head selections a caller passes: mean over heads or not, with headIdx
\* null, below 0, a head, or the head count itself.
HeadOptions(eng) ==
  {[meanHeads |-> m, headIdx |-> hd] :
     m \in BOOLEAN, hd \in {NullHead} \cup {HeadIdx(h) : h \in (-1)..eng.nHeads}}

\* The lists of 0..MaxSel distinct key indices.
Selections(K) ==
  {sel \in UNION {[1..n -> 0..(K - 1)] : n \in 0..MaxSel} :
     \A i, j \in DOMAIN sel : sel[i] = sel[j] => i = j}

\* The queries read the visualizer and write nothing to it, so what a call
\* returns does not depend on the calls before it: a behaviour follows one.

\* One call of getInverseAttention on the inverse visualizer.
CallInverse ==
  /\ en_pc = "loaded"
  /\ call = NoCall
  /\ engine.kind = "inverse"
  /\ \E patchIndices \in Selections(engine.attnWeightsShape[4]),
        ho \in HeadOptions(engine),
        aggregation \in {"sum", "max", "mean", "median"} :
       LET options == Options(ho.meanHeads, ho.headIdx, aggregation)
       IN  /\ call' = [method |-> "getInverseAttention", patchIndices |-> patchIndices,
                       options |-> options]
           /\ outcome' = getInverseAttention(engine, patchIndices, options)
  /\ UNCHANGED <<scene, en_pc, engine, imageDisplayOrder,
                 sceneJson, urlPrecision, rsVars, nbVars, ldVars, uiVars>>

\* One call of getCameraPatchAttentionForQuery on the forward visualizer.
CallCameraPatch ==
  /\ en_pc = "loaded"
  /\ call = NoCall
  /\ engine.kind = "forward"
  /\ \E queryIdx \in 0..(engine.attnWeightsShape[3] - 1),
        camName \in {engine.cameraNames[i] : i \in DOMAIN engine.cameraNames} \cup {"zz"},
        ho \in HeadOptions(engine) :
       LET options == Options(ho.meanHeads, ho.headIdx, "")
       IN  /\ call' = [method |-> "getCameraPatchAttentionForQuery",
                       queryIdx |-> queryIdx, camName |-> camName, options |-> options]
           /\ outcome' = getCameraPatchAttentionForQuery(engine, queryIdx, camName, options)
  /\ UNCHANGED <<scene, en_pc, engine, imageDisplayOrder,
                 sceneJson, urlPrecision, rsVars, nbVars, ldVars, uiVars>>

\* One call of getGlobalMaxPatchAttentionForQuery on the forward visualizer.
CallGlobalMax ==
  /\ en_pc = "loaded"
  /\ call = NoCall
  /\ engine.kind = "forward"
  /\ \E queryIdx \in 0..(engine.attnWeightsShape[3] - 1), ho \in HeadOptions(engine) :
       LET options == Options(ho.meanHeads, ho.headIdx, "")
       IN  /\ call' = [method |-> "getGlobalMaxPatchAttentionForQuery",
                       queryIdx |-> queryIdx, options |-> options]
           /\ outcome' = getGlobalMaxPatchAttentionForQuery(engine, queryIdx, options)
  /\ UNCHANGED <<scene, en_pc, engine, imageDisplayOrder,
                 sceneJson, urlPrecision, rsVars, nbVars, ldVars, uiVars>>

NextQuery == LoadSceneData \/ CallInverse \/ CallCameraPatch \/ CallGlobalMax

SpecQuery == InitQuery /\ [][NextQuery]_vars

\* ------------------------------------------------- claims on the queries

\* The sum of f over the finite set S of its arguments.
RECURSIVE SetSum(_, _)
SetSum(f, S) ==
  IF S = {} THEN 0
  ELSE LET x == CHOOSE x \in S : TRUE IN f[x] + SetSum(f, S \ {x})

\* The tensor [H][Q][K] a visualizer holds, as a function of (h, q, k): the
\* one of the tensors in use whose row-major payload the visualizer has.
TensorOf(eng) ==
  LET shape == eng.attnWeightsShape
      H == shape[2]
      Q == shape[3]
      K == shape[4]
      Idx == (0..(H - 1)) \X (0..(Q - 1)) \X (0..(K - 1))
      Flatten(T) == [i \in 0..(H * Q * K - 1) |-> T[<<i \div (Q * K), (i \div K) % Q, i % K>>]]
  IN  CHOOSE T \in {[t \in Idx |-> (t[1] * Q + t[2]) * K + t[3]],
                    [t \in Idx |-> 100 * t[1] + 10 * t[2] + t[3]],
                    [t \in Idx |-> (t[1] * Q + t[2]) * K + t[3] - ((H * Q * K) \div 2)]} :
        Flatten(T) = eng.attnWeightsFlat

\* The head selection is meanHeads, or a headIdx that is a head in [0, H).
ValidHeadSelection(options, H) ==
  options.meanHeads \/ (~options.headIdx.null /\ options.headIdx.h \in 0..(H - 1))

\* C17: for a non-empty selection P, getInverseAttention returns the
\* gridSize x gridSize map whose cell [y][x] is AGG over k in P of r(q, k),
\* q = y*gridSize + x, r the mean over all H heads of tensor(h, q, k) under
\* meanHeads and tensor(headIdx, q, k) otherwise, AGG the sum, the maximum,
\* or the sum divided by |P|.
C17_InverseResult ==
  (/\ call.method = "getInverseAttention"
   /\ call.patchIndices # <<>>
   /\ ValidHeadSelection(call.options, engine.nHeads)
   /\ call.options.aggregation \in {"sum", "max", "mean"}) =>
    LET T == TensorOf(engine)
        H == engine.attnWeightsShape[2]
        g == engine.gridSize
        P == {call.patchIndices[j] : j \in DOMAIN call.patchIndices}
        mean == call.options.meanHeads
        \* H times r(q, k) under meanHeads, r(q, k) itself otherwise
        w(q) == [k \in P |-> IF mean THEN SetSum([h \in 0..(H - 1) |-> T[<<h, q, k>>]],
                                                0..(H - 1))
                             ELSE T[<<call.options.headIdx.h, q, k>>]]
        den == IF mean THEN H ELSE 1
        greatest(q) == CHOOSE m \in {w(q)[k] : k \in P} : \A k \in P : w(q)[k] <= m
        cell(q) == CASE call.options.aggregation = "sum" -> Ratio(SetSum(w(q), P), den)
                     [] call.options.aggregation = "max" -> Ratio(greatest(q), den)
                     [] OTHER -> Ratio(SetSum(w(q), P), den * Cardinality(P))
    IN  /\ ~outcome.threw
        /\ outcome.value = [y \in 0..(g - 1) |-> [x \in 0..(g - 1) |-> cell(y * g + x)]]

\* C17, its case: the mean over the keys 2 and 5 of the mean over two heads
\* of the tensor 100*h + 10*q + k; at query 3 that is ((32 + 132)/2 +
\* (35 + 135)/2) / 2 = 167/2.
C17_Witness ==
  /\ call.method = "getInverseAttention"
  /\ call.patchIndices = <<2, 5>>
  /\ call.options = Options(TRUE, NullHead, "mean")
  /\ engine.nHeads = 2
  /\ engine.attnWeightsFlat = Digits(engine.attnWeightsShape)
  /\ ~outcome.threw
  /\ outcome.value[1][1] = Ratio(167, 2)

\* C18: getInverseAttention called with an empty patchIndices raises, for
\* every aggregation and every head selection; it never returns a map.
C18_EmptyRejected ==
  (call.method = "getInverseAttention" /\ call.patchIndices = <<>>) => outcome.threw

\* C19: getInverseAttention, getCameraPatchAttentionForQuery and
\* getGlobalMaxPatchAttentionForQuery, called with meanHeads = false and a
\* headIdx that is null or not a head in [0, H), raise and return no result,
\* whatever the camera and the patch set.
C19_InvalidHeadRejected ==
  (/\ call.method \in {"getInverseAttention", "getCameraPatchAttentionForQuery",
                       "getGlobalMaxPatchAttentionForQuery"}
   /\ ~ValidHeadSelection(call.options, engine.nHeads)) => outcome.threw

\* C20: getCameraPatchAttentionForQuery returns an array of exactly
\* camera.nPatches elements, element i the mean over all H heads, or the
\* selected head's value, of the payload element at h*Q*K + queryIdx*K +
\* (camera.startIdx + i), Q and K taken from the tensor shape.
C20_ForwardResult ==
  (/\ call.method = "getCameraPatchAttentionForQuery"
   /\ HasCamera(engine, call.camName)
   /\ ValidHeadSelection(call.options, engine.nHeads)) =>
    LET camera == getCameraInfo(engine, call.camName)
        H == engine.attnWeightsShape[2]
        Q == engine.attnWeightsShape[3]
        K == engine.attnWeightsShape[4]
        At(h, i) == engine.attnWeightsFlat[h * Q * K + call.queryIdx * K + (camera.startIdx + i)]
        element(i) == IF call.options.meanHeads
                      THEN Ratio(SetSum([h \in 0..(H - 1) |-> At(h, i)], 0..(H - 1)), H)
                      ELSE Fin(At(call.options.headIdx.h, i))
    IN  /\ ~outcome.threw
        /\ outcome.value = [i \in 0..(camera.nPatches - 1) |-> element(i)]

\* C20, its case: H = 2, Q = 4, K = 6, payload 0..47, the camera with
\* startIdx 2 and two patches, query 0: [mean(2, 26), mean(3, 27)].
C20_Witness ==
  /\ call.method = "getCameraPatchAttentionForQuery"
  /\ call.queryIdx = 0
  /\ call.camName = "front"
  /\ call.options.meanHeads
  /\ engine.attnWeightsShape = <<1, 2, 4, 6>>
  /\ engine.attnWeightsFlat = Sequential(48)
  /\ getCameraInfo(engine, "front").startIdx = 2
  /\ getCameraInfo(engine, "front").nPatches = 2
  /\ outcome = QueryReturned((0 :> Fin(14)) @@ (1 :> Fin(15)))

\* The inverse visualizer constructed on the scene a visualizer was built on.
InverseTwin ==
  Visualizer("inverse", engine.attnWeightsFlat, scene.images, engine.cameraNames,
             [gridSize |-> engine.gridSize, patchSize |-> engine.patchSize,
              hasClsTokens |-> engine.hasClsTokens,
              originalImages |-> scene.originalImages,
              attnWeightsShape |-> engine.attnWeightsShape])

C22_GlobalMax ==
  (/\ call.method = "getGlobalMaxPatchAttentionForQuery"
   /\ ValidHeadSelection(call.options, engine.nHeads)) =>
    LET perCamera(c) == getCameraPatchAttentionForQuery(engine, call.queryIdx, c,
                                                        call.options).value
        values == UNION {{perCamera(engine.cameraNames[n])[i] :
                            i \in DOMAIN perCamera(engine.cameraNames[n])} :
                           n \in DOMAIN engine.cameraNames}
    IN  /\ ~outcome.threw
        /\ outcome.value \in values
        /\ \A v \in values : ~NumGreater(v, outcome.value)

\* ---------------------------------------------------- regions and patches

Infinity == [k |-> "inf", n |-> 0, d |-> 1]

\* a * b for a >= 0 a whole number and b >= 0 a scale factor.
NumMul(a, b) ==
  CASE b.k = "fin" -> Ratio(a * b.n, b.d)
    [] b.k = "inf" -> IF a = 0 THEN NaN ELSE Infinity
    [] OTHER -> NaN

\* a / b for b >= 0: a scale factor, or the patch size.
NumQuot(a, b) ==
  CASE a.k = "fin" /\ b.k = "fin" ->
         IF b.n = 0
         THEN (IF a.n = 0 THEN NaN ELSE IF a.n > 0 THEN Infinity ELSE NegInfinity)
         ELSE Ratio(a.n * b.d, a.d * b.n)
    [] a.k = "fin" /\ b.k = "inf" -> Fin(0)
    [] a.k \in {"inf", "-inf"} /\ b.k = "fin" -> a
    [] OTHER -> NaN

\* Math.floor(x): floor of a fraction n/d with d > 0.
MathFloor(x) == IF x.k = "fin" THEN Fin(x.n \div x.d) ELSE x

\* Math.max(0, v)
MaxWithZero(v) ==
  CASE v.k = "fin" -> IF v.n < 0 THEN Fin(0) ELSE v
    [] v.k = "-inf" -> Fin(0)
    [] v.k = "inf" -> Infinity
    [] OTHER -> NaN

\* Math.min(limit, v) for a whole number limit.
MinWithLimit(limit, v) ==
  CASE v.k = "fin" -> IF NumGreater(v, Fin(limit)) THEN Fin(limit) ELSE v
    [] v.k = "inf" -> Fin(limit)
    [] v.k = "-inf" -> NegInfinity
    [] OTHER -> NaN

\* The lower patch bound without the clamp to 0.
PatchMin_Unclamped(pixel, scale, patchSize) ==
  MathFloor(NumQuot(NumQuot(pixel, scale), Fin(patchSize)))

\* Math.max(0, Math.floor(pixel / scale / patchSize))
PatchMin(pixel, scale, patchSize) ==
  MaxWithZero(MathFloor(NumQuot(NumQuot(pixel, scale), Fin(patchSize))))

\* Math.min(patches - 1, Math.floor(pixel / scale / patchSize))
PatchMax(pixel, scale, patchSize, patches) ==
  MinWithLimit(patches - 1, MathFloor(NumQuot(NumQuot(pixel, scale), Fin(patchSize))))

\* A range argument: null, or [min, max] in pixels.
NullRange == [null |-> TRUE, min |-> 0, max |-> 0]

Range(min, max) == [null |-> FALSE, min |-> min, max |-> max]

\* for (v = lo; v <= hi; v++): the values visited; none when either bound is
\* NaN or the comparison fails at once.
LoopValues(lo, hi) ==
  IF lo.k = "fin" /\ hi.k = "fin" /\ lo.n <= hi.n
  THEN [j \in 1..(hi.n - lo.n + 1) |-> lo.n + j - 1]
  ELSE <<>>

\* The clamped patch rectangle of getPatchIndicesForRegion: the rows and the
\* columns its two loops visit.
PatchRectangle(eng, info, xRange, yRange) ==
  LET xMin == IF xRange.null THEN Fin(0) ELSE Fin(xRange.min)
      xMax == IF xRange.null
              THEN NumAdd(MathFloor(NumMul(info.imgW, info.wScale)), Fin(-1))
              ELSE Fin(xRange.max)
      yMin == IF yRange.null THEN Fin(0) ELSE Fin(yRange.min)
      yMax == IF yRange.null
              THEN NumAdd(MathFloor(NumMul(info.imgH, info.hScale)), Fin(-1))
              ELSE Fin(yRange.max)
      patchXMin == PatchMin(xMin, info.wScale, eng.patchSize)
      patchXMax == PatchMax(xMax, info.wScale, eng.patchSize, info.patchW)
      patchYMin == PatchMin(yMin, info.hScale, eng.patchSize)
      patchYMax == PatchMax(yMax, info.hScale, eng.patchSize, info.patchH)
  IN  [rows |-> LoopValues(patchYMin, patchYMax), cols |-> LoopValues(patchXMin, patchXMax)]

\* getPatchIndicesForRegion(camName, xRange, yRange): reading info.imgW of an
\* unknown camera is a TypeError.
getPatchIndicesForRegion(eng, camName, xRange, yRange) ==
  IF ~HasCamera(eng, camName) THEN QueryThrown("TypeError")
  ELSE LET info == getCameraInfo(eng, camName)
           rect == PatchRectangle(eng, info, xRange, yRange)
           nc == Len(rect.cols)
       IN  QueryReturned([j \in 1..(Len(rect.rows) * nc) |->
                            info.startIdx
                              + rect.rows[((j - 1) \div nc) + 1] * info.patchW
                              + rect.cols[((j - 1) % nc) + 1]])

\* getAllPatchesForCamera(camName)
getAllPatchesForCamera(eng, camName) ==
  LET info == getCameraInfo(eng, camName)
  IN  [i \in 1..info.nPatches |-> info.startIdx + i - 1]

\* getInverseAttentionPerCamera(options): the maps in the order of cameraNames,
\* or the error of the first getInverseAttention that throws.
getInverseAttentionPerCamera(eng, options) ==
  LET maps == [c \in DOMAIN eng.cameraNames |->
                 getInverseAttention(eng, getAllPatchesForCamera(eng, eng.cameraNames[c]),
                                     options)]
  IN  IF \E c \in DOMAIN maps : maps[c].threw
      THEN maps[CHOOSE c \in DOMAIN maps :
                  maps[c].threw /\ \A e \in 1..(c - 1) : ~maps[e].threw]
      ELSE QueryReturned([c \in DOMAIN maps |->
                            [camName |-> eng.cameraNames[c], map |-> maps[c].value]])

\* A query that keeps its running values in the tensor.
ThisAfterQuery_Scratch(eng) ==
  [eng EXCEPT !.attnWeightsFlat = [i \in DOMAIN eng.attnWeightsFlat |-> 0]]

\* The visualizer after a query method has run, returned or thrown: the query
\* methods assign no field of this and store only into arrays they created.
ThisAfterQuery(eng) == eng

\* ------------------------------------------ scenes for regions and reads

\* Two cameras, "left" and "a", with a patch size of 2: images of 2 x 2 and
\* 1 x 3 patches, or of 2 x 3 patches and of no height.
ReadImages == {<<Image(4, 4), Image(2, 6)>>, <<Image(4, 6), Image(0, 4)>>}

\* The original images, s times the size of the scaled ones.
Scaled(imgs, s) == [i \in DOMAIN imgs |-> Image(s * imgs[i].height, s * imgs[i].width)]

ReadShape == <<1, 2, 4, 8>>

\* Manifests loadSceneData accepts: a tensor of 4 queries and 8 keys, with a
\* grid of 2 x 2 or 3 x 3 queries and layouts of 6 to 9 tokens.
InitReads ==
  /\ \E kind \in {"inverse", "forward"}, imgs \in ReadImages, s \in 1..2,
        cls \in BOOLEAN, grid \in 2..3 :
       scene = SceneData(kind, <<"left", "a">>, imgs, Scaled(imgs, s), ReadShape,
                         Digits(ReadShape), Metadata(grid, 2, cls, "", <<>>))
  /\ en_pc = "loading"
  /\ engine = NoEngine
  /\ imageDisplayOrder = <<>>
  /\ call = NoCall
  /\ outcome = NoOutcome
  /\ sceneJson = Manifest(ValidShape, "undefined", NoMap, "", NoDefault)
  /\ urlPrecision = ""
  /\ InitIdleResolve
  /\ InitIdleNibble
  /\ InitIdleLoad
  /\ InitIdleUi

RegionPixels == {-3, 0, 3, 5, 20}

\* Ranges inside, across and outside the images, reversed ones included.
RegionRanges == {NullRange} \cup {Range(min, max) : min, max \in RegionPixels}

FewRanges == {NullRange, Range(-3, 3), Range(3, 20)}

\* Mean over the heads, one head, or neither (the call throws).
ReadOptions ==
  {Options(TRUE, NullHead, "sum"), Options(FALSE, HeadIdx(1), "max"),
   Options(FALSE, NullHead, "sum")}

ReadCameras == {"left", "a", "zz"}

\* One call of getPatchIndicesForRegion.
RegionCall(ranges) ==
  /\ en_pc = "loaded"
  /\ engine.kind = "inverse"
  /\ \E camName \in ReadCameras, xRange \in ranges, yRange \in ranges :
       /\ call' = [method |-> "getPatchIndicesForRegion", camName |-> camName,
                   xRange |-> xRange, yRange |-> yRange]
       /\ outcome' = getPatchIndicesForRegion(engine, camName, xRange, yRange)
  /\ engine' = ThisAfterQuery(engine)
  /\ UNCHANGED <<scene, en_pc, imageDisplayOrder,
                 sceneJson, urlPrecision, rsVars, nbVars, ldVars, uiVars>>

\* The patches of a region given to getInverseAttention, as the application
\* does for each region drawn.
InverseOfRegionCall(ranges) ==
  /\ en_pc = "loaded"
  /\ engine.kind = "inverse"
  /\ \E camName \in ReadCameras, xRange \in ranges, yRange \in ranges,
        options \in ReadOptions :
       LET patches == getPatchIndicesForRegion(engine, camName, xRange, yRange)
       IN  /\ ~patches.threw
           /\ call' = [method |-> "getInverseAttention", patchIndices |-> patches.value,
                       options |-> options]
           /\ outcome' = getInverseAttention(engine, patches.value, options)
  /\ engine' = ThisAfterQuery(engine)
  /\ UNCHANGED <<scene, en_pc, imageDisplayOrder,
                 sceneJson, urlPrecision, rsVars, nbVars, ldVars, uiVars>>

\* One call of getInverseAttentionPerCamera.
PerCameraCall ==
  /\ en_pc = "loaded"
  /\ engine.kind = "inverse"
  /\ \E options \in ReadOptions :
       /\ call' = [method |-> "getInverseAttentionPerCamera", options |-> options]
       /\ outcome' = getInverseAttentionPerCamera(engine, options)
  /\ engine' = ThisAfterQuery(engine)
  /\ UNCHANGED <<scene, en_pc, imageDisplayOrder,
                 sceneJson, urlPrecision, rsVars, nbVars, ldVars, uiVars>>

\* One call of getCameraPatchAttentionForQuery for a cell of the grid.
CameraPatchCall ==
  /\ en_pc = "loaded"
  /\ engine.kind = "forward"
  /\ \E queryIdx \in 0..(engine.gridSize * engine.gridSize - 1),
        camName \in ReadCameras, options \in ReadOptions :
       /\ call' = [method |-> "getCameraPatchAttentionForQuery", queryIdx |-> queryIdx,
                   camName |-> camName, options |-> options]
       /\ outcome' = getCameraPatchAttentionForQuery(engine, queryIdx, camName, options)
  /\ engine' = ThisAfterQuery(engine)
  /\ UNCHANGED <<scene, en_pc, imageDisplayOrder,
                 sceneJson, urlPrecision, rsVars, nbVars, ldVars, uiVars>>

\* One call of getGlobalMaxPatchAttentionForQuery for a cell of the grid.
GlobalMaxCall ==
  /\ en_pc = "loaded"
  /\ engine.kind = "forward"
  /\ \E queryIdx \in 0..(engine.gridSize * engine.gridSize - 1), options \in ReadOptions :
       /\ call' = [method |-> "getGlobalMaxPatchAttentionForQuery", queryIdx |-> queryIdx,
                   options |-> options]
       /\ outcome' = getGlobalMaxPatchAttentionForQuery(engine, queryIdx, options)
  /\ engine' = ThisAfterQuery(engine)
  /\ UNCHANGED <<scene, en_pc, imageDisplayOrder,
                 sceneJson, urlPrecision, rsVars, nbVars, ldVars, uiVars>>

\* A scene is loaded and one query is made of its visualizer.
NextReads ==
  \/ LoadSceneData
  \/ (call = NoCall /\ RegionCall(RegionRanges))
  \/ (call = NoCall /\ InverseOfRegionCall(FewRanges))
  \/ (call = NoCall /\ CameraPatchCall)

SpecReads == InitReads /\ [][NextReads]_vars

InitRepeat == InitReads

\* A scene is loaded and any number of queries is made of its visualizer.
NextRepeat ==
  \/ LoadSceneData
  \/ RegionCall(FewRanges)
  \/ InverseOfRegionCall(FewRanges)
  \/ PerCameraCall
  \/ CameraPatchCall
  \/ GlobalMaxCall

SpecRepeat == InitRepeat /\ [][NextRepeat]_vars

\* The visualizer's tensor, shape and PatchInfo table as the constructor
\* built them from the scene.
AsConstructed ==
  /\ engine.attnWeightsFlat = scene.attnWeights
  /\ engine.attnWeightsShape = scene.attn_weights_shape
  /\ engine.patchInfo
       = _buildPatchInfo(scene.kind, scene.image_names, scene.images, scene.originalImages,
                         engine.patchSize, engine.hasClsTokens).infos

\* The last call made again, with the same arguments, of the visualizer as it
\* is now.
Requery ==
  CASE call.method = "getPatchIndicesForRegion" ->
         getPatchIndicesForRegion(engine, call.camName, call.xRange, call.yRange)
    [] call.method = "getInverseAttention" ->
         getInverseAttention(engine, call.patchIndices, call.options)
    [] call.method = "getInverseAttentionPerCamera" ->
         getInverseAttentionPerCamera(engine, call.options)
    [] call.method = "getCameraPatchAttentionForQuery" ->
         getCameraPatchAttentionForQuery(engine, call.queryIdx, call.camName, call.options)
    [] call.method = "getGlobalMaxPatchAttentionForQuery" ->
         getGlobalMaxPatchAttentionForQuery(engine, call.queryIdx, call.options)
    [] OTHER -> outcome

ReadsOf ==
  LET heads(options) == IF options.meanHeads THEN 0..(engine.nHeads - 1)
                        ELSE {options.headIdx.h}
  IN  CASE call.method = "getInverseAttention" /\ ~outcome.threw ->
             {<<h, q, call.patchIndices[j]>> :
                h \in heads(call.options), q \in 0..(engine.nQueries - 1),
                j \in DOMAIN call.patchIndices}
        [] call.method = "getCameraPatchAttentionForQuery" /\ ~outcome.threw ->
             LET info == getCameraInfo(engine, call.camName)
             IN  {<<h, call.queryIdx, info.startIdx + i>> :
                    h \in heads(call.options), i \in 0..(info.nPatches - 1)}
        [] OTHER -> {}

\* C28: in every scene loadSceneData accepts, gridSize * gridSize is the
\* shape's Q, the layout ends at or below the shape's K, and every element
\* getInverseAttention reads for the patches of a region, or
\* getCameraPatchAttentionForQuery reads for a cell of the grid, has its head
\* below H, its query below Q and its key below K, so that its flat index is
\* below H*Q*K and is the index of that triple.
C28_ReadsInRange ==
  en_pc = "loaded" =>
    LET shape == engine.attnWeightsShape
    IN  /\ engine.gridSize * engine.gridSize = shape[3]
        /\ \A i \in DOMAIN engine.patchInfo :
             engine.patchInfo[i].startIdx + engine.patchInfo[i].nPatches <= shape[4]
        /\ \A t \in ReadsOf :
             /\ t[1] \in 0..(shape[2] - 1)
             /\ t[2] \in 0..(shape[3] - 1)
             /\ t[3] \in 0..(shape[4] - 1)
             /\ FlatIndex(shape, 0, t[1], t[2], t[3]) < shape[2] * shape[3] * shape[4]

\* C29: for a known camera and any xRange and yRange, every index
\* getPatchIndicesForRegion returns is in [startIdx, startIdx + nPatches), the
\* indices ascend strictly, each has its column below patchW, they are the
\* rows and columns of the clamped rectangle in row-major order, and none is
\* returned exactly when that rectangle is empty.
C29_RegionInsideCamera ==
  (/\ en_pc = "loaded"
   /\ call.method = "getPatchIndicesForRegion"
   /\ HasCamera(engine, call.camName)) =>
    LET info == getCameraInfo(engine, call.camName)
        rect == PatchRectangle(engine, info, call.xRange, call.yRange)
        g == outcome.value
        local(j) == g[j] - info.startIdx
    IN  /\ ~outcome.threw
        /\ \A j \in DOMAIN g : info.startIdx <= g[j] /\ g[j] < info.startIdx + info.nPatches
        /\ \A j \in DOMAIN g : j > 1 => g[j - 1] < g[j]
        /\ \A j \in DOMAIN g :
             \E r \in DOMAIN rect.rows, c \in DOMAIN rect.cols :
               /\ local(j) = rect.rows[r] * info.patchW + rect.cols[c]
               /\ rect.rows[r] \in 0..(info.patchH - 1)
               /\ rect.cols[c] \in 0..(info.patchW - 1)
        /\ Len(g) = Len(rect.rows) * Len(rect.cols)
        /\ (g = <<>>) <=> (rect.rows = <<>> \/ rect.cols = <<>>)

C29_Witness ==
  /\ en_pc = "loaded"
  /\ call.method = "getPatchIndicesForRegion"
  /\ call.camName = "left"
  /\ call.xRange = Range(-3, 20)
  /\ call.yRange = Range(3, 5)
  /\ getCameraInfo(engine, "left").wScale = Fin(2)
  /\ getCameraInfo(engine, "left").startIdx = 5
  /\ outcome = QueryReturned(<<5, 6, 7, 8>>)

\* ------------------------------------------------------------ App.loadScene

MaxLoads == 3

ScenePaths == {"scene_a.json", "scene_b.json"}

\* The scene data loadSceneData resolves with for the i-th loadScene call, and
\* the visualizer inside it: each call builds its own objects.
SceneDataOf(i) == [jsonPath |-> loads[i].jsonPath, load |-> i]

VisualizerOf(i) == [jsonPath |-> loads[i].jsonPath, load |-> i]

InitApp ==
  /\ sceneJson = Manifest(ValidShape, "undefined", NoMap, "", NoDefault)
  /\ urlPrecision = "auto"
  /\ InitIdleResolve
  /\ InitIdleNibble
  /\ InitIdleLoad
  /\ InitIdleEngine
  /\ InitIdleUi

\* App.loadScene(jsonPath) up to its await: the loading panel is shown, the
\* error panel hidden, and loadSceneData is started.
LoadScene ==
  /\ Len(loads) < MaxLoads
  /\ \E jsonPath \in ScenePaths :
       loads' = Append(loads, [jsonPath |-> jsonPath, pc |-> "awaiting"])
  /\ app' = [app EXCEPT !.loading = TRUE, !.error = ""]
  /\ UNCHANGED <<bev, bev_images, enVars, sceneJson, urlPrecision, rsVars, nbVars, ldVars>>

\* loadSceneData of the i-th call resolves and the call runs to its end.
LoadSceneResolves ==
  /\ \E i \in DOMAIN loads :
       /\ loads[i].pc = "awaiting"
       /\ loads' = [loads EXCEPT ![i].pc = "resolved"]
       /\ app' = [app EXCEPT !.sceneData = SceneDataOf(i),
                             !.visualizer = VisualizerOf(i),
                             !.loading = FALSE]
  /\ UNCHANGED <<bev, bev_images, enVars, sceneJson, urlPrecision, rsVars, nbVars, ldVars>>

\* loadSceneData of the i-th call rejects and the call's catch block runs.
LoadSceneRejects ==
  /\ \E i \in DOMAIN loads :
       /\ loads[i].pc = "awaiting"
       /\ loads' = [loads EXCEPT ![i].pc = "rejected"]
       /\ app' = [app EXCEPT !.error = "Failed to load scene", !.loading = FALSE]
  /\ UNCHANGED <<bev, bev_images, enVars, sceneJson, urlPrecision, rsVars, nbVars, ldVars>>

NextApp == LoadScene \/ LoadSceneResolves \/ LoadSceneRejects

SpecApp == InitApp /\ [][NextApp]_vars

AllSettled == \A i \in DOMAIN loads : loads[i].pc # "awaiting"

\* C25: once every loadScene call has settled, in whatever order, and the most
\* recently started one resolved, app.sceneData and app.visualizer are those of
\* the most recently started call: an earlier call's result is discarded.
C25_LatestLoadWins ==
  (Len(loads) >= 2 /\ AllSettled /\ loads[Len(loads)].pc = "resolved") =>
    /\ app.sceneData = SceneDataOf(Len(loads))
    /\ app.visualizer = VisualizerOf(Len(loads))

\* ------------------------------------------------- BEVView.setBaseImageUrl

MaxImages == 3

\* "undefined" stands for a call without a usable url.
BaseImageUrls == {"undefined", "", "bev_a.png", "bev_b.png"}

\* BEVView.setBaseImageUrl(url), the Image it creates included.
SetBaseImageUrl ==
  /\ \E url \in BaseImageUrls :
       LET next == IF url \in {"undefined", ""} THEN "" ELSE url
       IN  IF next = bev.baseImageUrl
           THEN UNCHANGED <<bev, bev_images>>
           ELSE IF next = ""
           THEN /\ bev' = [bev EXCEPT !.baseImageUrl = next, !.baseImage = 0]
                /\ UNCHANGED bev_images
           ELSE /\ Len(bev_images) < MaxImages
                /\ LET token == bev.baseImageLoadToken + 1
                   IN  /\ bev' = [baseImageUrl |-> next, baseImage |-> 0,
                                  baseImageLoadToken |-> token]
                       /\ bev_images' = Append(bev_images,
                                           [src |-> next, token |-> token, pc |-> "loading"])
  /\ UNCHANGED <<app, loads, enVars, sceneJson, urlPrecision, rsVars, nbVars, ldVars>>

\* The onload callback of an Image setBaseImageUrl started.
ImageOnload ==
  /\ \E i \in DOMAIN bev_images :
       /\ bev_images[i].pc = "loading"
       /\ bev_images' = [bev_images EXCEPT ![i].pc = "loaded"]
       /\ bev' = IF bev_images[i].token # bev.baseImageLoadToken
                 THEN bev
                 ELSE [bev EXCEPT !.baseImage = i]
  /\ UNCHANGED <<app, loads, enVars, sceneJson, urlPrecision, rsVars, nbVars, ldVars>>

\* The onerror callback of an Image setBaseImageUrl started.
ImageOnerror ==
  /\ \E i \in DOMAIN bev_images :
       /\ bev_images[i].pc = "loading"
       /\ bev_images' = [bev_images EXCEPT ![i].pc = "failed"]
       /\ bev' = IF bev_images[i].token # bev.baseImageLoadToken
                 THEN bev
                 ELSE [bev EXCEPT !.baseImage = 0]
  /\ UNCHANGED <<app, loads, enVars, sceneJson, urlPrecision, rsVars, nbVars, ldVars>>

InitBev == InitApp

NextBev == SetBaseImageUrl \/ ImageOnload \/ ImageOnerror

SpecBev == InitBev /\ [][NextBev]_vars

\* C27: baseImage is null or the loaded Image that the current baseImageUrl
\* started; in particular it is null whenever baseImageUrl is ''.
C27_StaleGuard ==
  /\ bev.baseImage # 0 =>
       /\ bev_images[bev.baseImage].src = bev.baseImageUrl
       /\ bev_images[bev.baseImage].pc = "loaded"
       /\ bev_images[bev.baseImage].token = bev.baseImageLoadToken
  /\ bev.baseImageUrl = "" => bev.baseImage = 0

\* -------------------------------------------------------------- the program

\* The entry points modelled, each started on its own inputs.
Init == InitResolve \/ InitNibble \/ InitLoad \/ InitLayout \/ InitQuery \/ InitApp \/ InitBev \/ InitReads \/ InitRepeat

Next == NextResolve \/ NextNibble \/ NextLoad \/ NextLayout \/ NextQuery \/ NextApp \/ NextBev \/ NextReads \/ NextRepeat

Spec == Init /\ [][Next]_vars

====
